---- MODULE Spec2Model ----
(***************************************************************************)
(* ECGViewer: the windowed viewport engine (slider, window length, axis    *)
(* range, range-changed feedback), the fiducial and note stores, the       *)
(* overlay descriptor lists and the mouse/keyboard interaction machine.    *)
(*                                                                         *)
(* Time is counted in ticks: one sample period is TicksPerSample ticks and *)
(* t_[i] - t_[0] = i * TicksPerSample (a uniformly sampled recording), so  *)
(* that the double arithmetic of the source is exact integer arithmetic.   *)
(* x * fs_ (seconds to samples) is x / TicksPerSample.                     *)
(*                                                                         *)
(* Every event handler is one action; the signals it raises synchronously  *)
(* (slider valueChanged, axis rangeChanged) are delivered inside it, as Qt *)
(* direct connections do.  A modal dialog suspends its handler: the part   *)
(* after exec() runs when the dialog is closed.                            *)
(***************************************************************************)
EXTENDS Integers, Sequences, FiniteSets, TLC

VARIABLES
    viewer,   \* the fields of the ECGViewer object
    plot,     \* plot_: x-axis range and the iRangeDrag interaction flag
    slider,   \* slider_: value and maximum (minimum is 0)
    modal,    \* stack of open modal dialogs, innermost last
    mouse,    \* the left button and the gesture it is performing (environment)
    trace,    \* observation of the event handled last (not program state)
    disk      \* the files of ./ECGData: <prefix>_ecg_data.json and <prefix>_ecg_data.csv

vars == <<viewer, plot, slider, modal, mouse, trace, disk>>

----------------------------------------------------------------------------
(* Bounds of the model *)

\* sample rate of the modelled recording, Hz
Fs == 10
\* resolution of time: ticks per sample period
TicksPerSample == 8
\* number of samples of the long recording
NSamples == 10
\* number of samples of the short recording (total_time_ < min_window_s_)
NShort == 3
NMid == 7
\* nesting of signal deliveries after which an event is declared divergent
MaxCallDepth == 6

TicksPerSecond == Fs * TicksPerSample

----------------------------------------------------------------------------
(* Arithmetic of the source *)

Max(a, b) == IF a >= b THEN a ELSE b
Min(a, b) == IF a <= b THEN a ELSE b
Abs(a) == IF a >= 0 THEN a ELSE -a

\* static_cast<int>(a / b): truncation toward zero
TruncDiv(a, b) == IF a >= 0 THEN a \div b ELSE -((-a) \div b)

\* std::round(a / b): to nearest, halves away from zero
RoundDiv(a, b) == IF a >= 0 THEN (2 * a + b) \div (2 * b) ELSE -((2 * (-a) + b) \div (2 * b))

\* std::clamp(x, lo, hi)
Clamp(x, lo, hi) == IF x < lo THEN lo ELSE IF x > hi THEN hi ELSE x

\* static_cast<int>(x * fs_)
SampleFloor(x) == TruncDiv(x, TicksPerSample)

\* t_[i] - t_.first()
TRel(i) == i * TicksPerSample

\* 1.0 / std::max(fs_, 1.0)
SamplePeriod == TicksPerSecond \div Max(Fs, 1)

\* vClean_[i]: the modelled cleaned trace is v_clean[i] = i
VClean(i) == i

\* a lookup that truncates the sample index instead of rounding it
CleanValueAt_truncated(n, relTime) == VClean(Clamp(TruncDiv(relTime, TicksPerSample), 0, n - 1))

\* vClean_[clamp(round(relTime * fs_), 0, size - 1)]
CleanValueAt(n, relTime) == VClean(Clamp(RoundDiv(relTime, TicksPerSample), 0, n - 1))

FiducialTypes == <<"P", "Q", "R", "S", "T">>

At(seq, i) == seq[i + 1]

\* F applied to the value of e, which is computed once
Force(e, F(_)) == CHOOSE r \in {F(x) : x \in {e}} : TRUE

World ==
    [viewer |-> viewer, plot |-> plot, slider |-> slider, modal |-> modal,
     mouse |-> mouse, trace |-> trace, disk |-> disk]

Commit(world) ==
    \E w \in {world} :
        /\ viewer' = w.viewer
        /\ plot' = w.plot
        /\ slider' = w.slider
        /\ modal' = w.modal
        /\ mouse' = w.mouse
        /\ trace' = w.trace
        /\ disk' = w.disk

----------------------------------------------------------------------------
(* Overlay rebuilder *)

VisibleIndices(ts, x0, x1) ==
    SelectSeq([i \in 1..Len(ts) |-> i - 1], LAMBDA i : ~(ts[i + 1] < x0 \/ ts[i + 1] > x1))

AddLinesFor(times, type, x0, x1) ==
    LET idx == VisibleIndices(times, x0, x1)
    IN  [k \in 1..Len(idx) |-> [type |-> type, index |-> idx[k], lineX |-> times[idx[k] + 1]]]

FiducialDescriptors(times, x0, x1) ==
    AddLinesFor(times["P"], "P", x0, x1) \o AddLinesFor(times["Q"], "Q", x0, x1)
        \o AddLinesFor(times["R"], "R", x0, x1) \o AddLinesFor(times["S"], "S", x0, x1)
        \o AddLinesFor(times["T"], "T", x0, x1)

\* the items that n calls of new QCPItem...(plot_) add to a plot whose items are alive:
\* n names that no item alive bears, the smallest ones
NewItems(alive, n) ==
    LET free == (1..(Cardinality(alive) + n)) \ alive
    IN  [k \in 1..n |-> CHOOSE x \in free : Cardinality({y \in free : y < x}) = k - 1]

ItemsOf(seq) == {seq[k] : k \in 1..Len(seq)}

\* fiducialItems_ holds the line and the text of fiducialsCurrent_[k] at 2k-1 and 2k
updateFiducialLines(w, x0, x1) ==
    LET kept == w.plot.items \ ItemsOf(w.viewer.fiducialItems_)
        descriptors == FiducialDescriptors(w.viewer.times, x0, x1)
        created == NewItems(kept, 2 * Len(descriptors))
    IN  [w EXCEPT !.plot.items = kept \cup ItemsOf(created),
                  !.viewer.fiducialItems_ = created,
                  !.viewer.fiducialsCurrent_ = descriptors]

\* a visibility test that looks at the start of the note only
NoteVisible_startOnly(n, x0, x1) == ~(n.time < x0 \/ n.time > x1)

NoteVisible(n, x0, x1) ==
    LET t0 == n.time
        t1 == n.time + Max(0, n.duration)
    IN  IF ~(n.duration > 0) THEN ~(t0 < x0 \/ t0 > x1) ELSE ~(t1 < x0 \/ t0 > x1)

NoteDescriptors(notes, x0, x1) ==
    LET idx == SelectSeq([i \in 1..Len(notes) |-> i - 1],
                         LAMBDA i : NoteVisible(notes[i + 1], x0, x1))
    IN  [k \in 1..Len(idx) |->
            [noteIndex |-> idx[k],
             line |-> ~(notes[idx[k] + 1].duration > 0),
             rect |-> notes[idx[k] + 1].duration > 0]]

\* updateNoteItems that creates the new items beside those of the previous descriptors
updateNoteItems_keepsPrevious(w, x0, x1) ==
    LET descriptors == NoteDescriptors(w.viewer.notes_, x0, x1)
        created == NewItems(w.plot.items, 2 * Len(descriptors))
    IN  [w EXCEPT !.plot.items = @ \cup ItemsOf(created),
                  !.viewer.noteItems_ = created,
                  !.viewer.notesCurrent_ = descriptors]

\* noteItems_ holds the pointers of notesCurrent_[k]: nv.line or nv.rect at 2k-1, nv.text at 2k
updateNoteItems(w, x0, x1) ==
    LET kept == w.plot.items \ ItemsOf(w.viewer.noteItems_)
        descriptors == NoteDescriptors(w.viewer.notes_, x0, x1)
        created == NewItems(kept, 2 * Len(descriptors))
    IN  [w EXCEPT !.plot.items = kept \cup ItemsOf(created),
                  !.viewer.noteItems_ = created,
                  !.viewer.notesCurrent_ = descriptors]

----------------------------------------------------------------------------
(* Viewport engine: updateWindow, the slider, the axis and the              *)
(* range-changed handler call each other through Qt signals.                *)

RECURSIVE updateWindow(_, _), QCPAxis_setRange(_, _, _), rangeChanged(_), QSlider_setValue(_, _)

\* the point budget of a refresh, 5000 in the code, scaled to the model's record lengths
maxPoints == 3

\* artMask_[i] of the record the viewer is opened on: samples 1, 2, 6, 7, ... are artifacts
artMask(i) == IF i % 5 \in {1, 2} THEN 1 ELSE 0

\* a programmatic write of the x-range: plot_->xAxis->setRange(lo, hi) in the viewer's code
xAxisSetRange(w, lo, hi) ==
    QCPAxis_setRange(
        [w EXCEPT !.trace.axisWrites = @ + 1,
                  !.trace.unguardedWrites = @ + (IF w.viewer.suppressRangeHandler_ THEN 0 ELSE 1)],
        lo, hi)

updateWindow(w, startSample) ==
    LET s0 == IF startSample < 0 THEN 0 ELSE startSample
        s == IF s0 > w.viewer.max_start_sample_ THEN w.viewer.max_start_sample_ ELSE s0
        endSample == Min(s + w.viewer.window_samples_, w.viewer.N)
        rawCount == endSample - s
        step0 == IF rawCount > maxPoints THEN rawCount \div maxPoints ELSE 1
        step == IF step0 < 1 THEN 1 ELSE step0
        \* the values of i in the loop for (i = startSample; i < endSample; i += step)
        visited == [k \in 1..((rawCount + step - 1) \div step) |-> s + (k - 1) * step]
        txBase == SelectSeq(visited, LAMBDA i : artMask(i) = 0)
        \* filled by the loop and handed to no graph
        txNoise == SelectSeq(visited, LAMBDA i : artMask(i) # 0)
        txOrigFull == IF ~w.viewer.hide_artifacts_ THEN visited ELSE <<>>
        x0 == TRel(s)
        x1 == x0 + w.viewer.window_s_
        w1 == [w EXCEPT !.viewer.currentX0 = x0, !.viewer.currentX1 = x1,
                        !.plot.graphCleanBase = txBase,
                        !.plot.graphOrigFull =
                            IF ~w.viewer.hide_artifacts_ THEN txOrigFull ELSE @,
                        !.plot.graphOrigFullVisible = ~w.viewer.hide_artifacts_,
                        !.trace.refresh = s]
    IN  Force(xAxisSetRange(w1, x0, x1),
              LAMBDA w2 : updateNoteItems(updateFiducialLines(w2, x0, x1), x0, x1))

\* QCPAxis::setRange: no signal for an unchanged or an invalid (empty) range
QCPAxis_setRange(w, lo, hi) ==
    IF (lo = w.plot.lower /\ hi = w.plot.upper) \/ lo = hi
    THEN w
    ELSE rangeChanged([w EXCEPT !.plot.lower = Min(lo, hi), !.plot.upper = Max(lo, hi)])

rangeChangedBody(w) ==
    IF w.trace.callDepth >= MaxCallDepth
    THEN [w EXCEPT !.trace.overflow = TRUE]
    ELSE
        LET wa == [w EXCEPT !.trace.callDepth = @ + 1,
                            !.trace.bodyActive = @ + 1,
                            !.trace.bodyActiveMax = Max(@, w.trace.bodyActive + 1)]
            width == w.plot.upper - w.plot.lower
            maxUpper == w.viewer.total_time_
            lo1 == IF w.plot.lower < 0 THEN 0 ELSE w.plot.lower
            hi1 == IF w.plot.lower < 0 THEN lo1 + width ELSE w.plot.upper
            xUpper == IF hi1 > maxUpper THEN maxUpper ELSE hi1
            xLower == IF hi1 > maxUpper THEN xUpper - width ELSE lo1
        IN  Force(xAxisSetRange([wa EXCEPT !.viewer.suppressRangeHandler_ = TRUE], xLower, xUpper),
                  LAMBDA w1 :
                    LET w2 == [w1 EXCEPT !.viewer.suppressRangeHandler_ = FALSE]
                        maxLower == Max(0, w1.viewer.total_time_ - w1.viewer.window_s_)
                        clampedLower == IF xLower > maxLower THEN maxLower ELSE xLower
                        s0 == SampleFloor(clampedLower)
                        s1 == IF s0 < 0 THEN 0 ELSE s0
                        startSample == IF s1 > w1.viewer.max_start_sample_
                                       THEN w1.viewer.max_start_sample_ ELSE s1
                    IN  Force(QSlider_setValue([w2 EXCEPT !.viewer.suppressRangeHandler_ = TRUE,
                                                          !.trace.written = <<xLower, xUpper, startSample>>],
                                               startSample),
                              LAMBDA w3 : [w3 EXCEPT !.viewer.suppressRangeHandler_ = FALSE,
                                                     !.trace.callDepth = @ - 1,
                                                     !.trace.bodyActive = @ - 1]))

\* the range-changed handler without its suppress test
rangeChanged_noSuppressTest(w) ==
    IF w.viewer.draggingFiducial_ THEN w ELSE rangeChangedBody(w)

rangeChanged(w) ==
    IF w.viewer.suppressRangeHandler_ \/ w.viewer.draggingFiducial_
    THEN w
    ELSE rangeChangedBody(w)

\* QAbstractSlider::setValue: bounds the value, emits valueChanged when it changes;
\* valueChanged is connected to updateWindow(value)
QSlider_setValue(w, value) ==
    LET v == Clamp(value, 0, w.slider.maximum)
    IN  IF v = w.slider.value
        THEN w
        ELSE updateWindow([w EXCEPT !.slider.value = v], v)

\* QAbstractSlider::setMaximum: the value is bounded again
QSlider_setMaximum(w, maximum) ==
    LET m == Max(0, maximum)
    IN  IF m = w.slider.maximum
        THEN w
        ELSE QSlider_setValue([w EXCEPT !.slider.maximum = m], w.slider.value)

\* updateWindowLength that leaves max_start_sample_ and the slider's maximum as they were
updateWindowLength_staleMaxStart(w, num, den) ==
    LET a == IF num < w.viewer.min_window_s_ * den THEN w.viewer.min_window_s_ * den ELSE num
        newWindowSeconds == IF a > w.viewer.total_time_ * den THEN w.viewer.total_time_ ELSE a \div den
        w1 == [w EXCEPT !.viewer.window_s_ = newWindowSeconds,
                        !.viewer.window_samples_ = Max(1, SampleFloor(newWindowSeconds))]
    IN  updateWindow(w1, w1.slider.value)

\* updateWindowLength with max_start_sample_ = max(0, N - window_samples_)
updateWindowLength_inclusiveMaxStart(w, num, den) ==
    LET a == IF num < w.viewer.min_window_s_ * den THEN w.viewer.min_window_s_ * den ELSE num
        newWindowSeconds == IF a > w.viewer.total_time_ * den THEN w.viewer.total_time_ ELSE a \div den
        window_samples == Max(1, SampleFloor(newWindowSeconds))
        max_start == Max(0, w.viewer.N - window_samples)
        w1 == [w EXCEPT !.viewer.window_s_ = newWindowSeconds,
                        !.viewer.window_samples_ = window_samples,
                        !.viewer.max_start_sample_ = max_start]
    IN  Force(QSlider_setMaximum(w1, max_start),
              LAMBDA w2 : updateWindow(w2, Min(w2.slider.value, max_start)))

\* updateWindowLength(num / den)
updateWindowLength(w, num, den) ==
    LET a == IF num < w.viewer.min_window_s_ * den THEN w.viewer.min_window_s_ * den ELSE num
        newWindowSeconds == IF a > w.viewer.total_time_ * den THEN w.viewer.total_time_ ELSE a \div den
        window_samples == Max(1, SampleFloor(newWindowSeconds))
        max_start == Max(0, w.viewer.N - window_samples - 1)
        w1 == [w EXCEPT !.viewer.window_s_ = newWindowSeconds,
                        !.viewer.window_samples_ = window_samples,
                        !.viewer.max_start_sample_ = max_start]
    IN  Force(QSlider_setMaximum(w1, max_start),
              LAMBDA w2 :
                LET startSample == w2.slider.value
                IN  IF startSample > w2.viewer.max_start_sample_
                    THEN Force(QSlider_setValue(w2, w2.viewer.max_start_sample_),
                               LAMBDA w3 : updateWindow(w3, w2.viewer.max_start_sample_))
                    ELSE updateWindow(w2, startSample))

nudge(w, deltaSamples) ==
    LET n0 == w.slider.value + deltaSamples
        n1 == IF n0 < 0 THEN 0 ELSE n0
        newVal == IF n1 > w.viewer.max_start_sample_ THEN w.viewer.max_start_sample_ ELSE n1
    IN  QSlider_setValue(w, newVal)

----------------------------------------------------------------------------
(* Note store and note editor *)

NoItem == <<"none", -1>>

\* a clamp that bounds the time and leaves a duration running past the end
ClampNote_noEndClamp(n, total_time) ==
    [n EXCEPT !.time = Clamp(n.time, 0, total_time), !.duration = Max(0, n.duration)]

\* the clamp applied by the note editor and by the release ending a region creation
ClampNote(n, total_time) ==
    LET t1 == IF n.time < 0 THEN 0 ELSE n.time
        t2 == IF t1 > total_time THEN total_time ELSE t1
        d1 == IF n.duration < 0 THEN 0 ELSE n.duration
        d2 == IF t2 + d1 > total_time THEN Max(0, total_time - t2) ELSE d1
    IN  [n EXCEPT !.time = t2, !.duration = d2]

\* the clamp applied to an entry read by onLoadNotes
ClampLoaded(n, total_time) ==
    LET d1 == IF n.duration < 0 THEN 0 ELSE n.duration
        d2 == IF n.time + d1 > total_time THEN Max(0, total_time - n.time) ELSE d1
        t1 == IF n.time < 0 THEN 0 ELSE n.time
        t2 == IF t1 > total_time THEN total_time ELSE t1
    IN  [n EXCEPT !.time = t2, !.duration = d2]

\* first index i of notesCurrent_ with noteIndex = k, or the value kept when there is none
FindVisual(notesCurrent, k, otherwise) ==
    LET hits == {i \in 0..(Len(notesCurrent) - 1) : notesCurrent[i + 1].noteIndex = k}
    IN  IF hits = {} THEN otherwise ELSE CHOOSE i \in hits : \A j \in hits : i <= j

\* what the caller of openNoteEditor does once the editor has returned
AfterEditor(w, cont) ==
    IF cont = "release"
    THEN [w EXCEPT !.viewer.creatingNoteIndex_ = -1,
                   !.viewer.activeNoteVisualIndex_ = -1,
                   !.viewer.regionAnchorTime_ = 0,
                   !.plot.iRangeDrag = w.viewer.savedInteractions_,
                   !.viewer.noteDragMode_ = "None"]
    ELSE IF cont \in {"mgrNew", "mgrEdit"}
    THEN updateNoteItems(w, w.viewer.currentX0, w.viewer.currentX1)
    ELSE w

\* openNoteEditor up to dlg.exec(): the editor is modal, the caller resumes when it closes
openNoteEditor(w, noteIndex, cont) ==
    IF noteIndex < 0 \/ noteIndex >= Len(w.viewer.notes_)
    THEN AfterEditor(w, cont)
    ELSE [w EXCEPT !.modal = Append(@, [dlg |-> "editor", noteIndex |-> noteIndex, cont |-> cont])]

\* openNoteEditor after QDialog::Accepted with the values of the time and duration boxes
editorAccepted(w, time, duration) ==
    LET top == w.modal[Len(w.modal)]
        k == top.noteIndex + 1
        n == ClampNote([w.viewer.notes_[k] EXCEPT !.time = time, !.duration = duration],
                       w.viewer.total_time_)
        w1 == [w EXCEPT !.viewer.notes_[k] = n, !.modal = SubSeq(@, 1, Len(@) - 1)]
        w2 == updateNoteItems(w1, w1.viewer.currentX0, w1.viewer.currentX1)
    IN  AfterEditor(w2, top.cont)

\* openNoteEditor after QDialog::Accepted with the values of the tag, time,
\* duration and voltage fields (the tag stands for both text fields)
editorAcceptedFields(w, tag, time, duration, volts) ==
    LET k == w.modal[Len(w.modal)].noteIndex + 1
    IN  editorAccepted([w EXCEPT !.viewer.notes_[k].tag = tag, !.viewer.notes_[k].volts = volts],
                       time, duration)

\* openNoteEditor after QDialog::Rejected
editorRejected(w) ==
    AfterEditor([w EXCEPT !.modal = SubSeq(@, 1, Len(@) - 1)], w.modal[Len(w.modal)].cont)

deleteHoveredNote(w) ==
    LET v == w.viewer
    IN  IF v.hoverNoteIndex_ < 0 \/ v.hoverNoteIndex_ >= Len(v.notesCurrent_)
        THEN w
        ELSE LET noteIndex == At(v.notesCurrent_, v.hoverNoteIndex_).noteIndex
             IN  IF noteIndex < 0 \/ noteIndex >= Len(v.notes_)
                 THEN w
                 ELSE updateNoteItems(
                          [w EXCEPT !.viewer.notes_ =
                              SubSeq(@, 1, noteIndex) \o SubSeq(@, noteIndex + 2, Len(@))],
                          v.currentX0, v.currentX1)

----------------------------------------------------------------------------
(* Fiducial store *)

RemoveAt(seq, i) == SubSeq(seq, 1, i) \o SubSeq(seq, i + 2, Len(seq))
InsertAt(seq, i, x) == SubSeq(seq, 1, i) \o <<x>> \o SubSeq(seq, i + 1, Len(seq))

\* deleteHoveredFiducial that removes the time and leaves the value
deleteHoveredFiducial_timeOnly(w) ==
    LET v == w.viewer
    IN  IF v.hoverFiducialIndex_ < 0 \/ v.hoverFiducialIndex_ >= Len(v.fiducialsCurrent_)
        THEN w
        ELSE LET f == At(v.fiducialsCurrent_, v.hoverFiducialIndex_)
             IN  IF f.index < 0 \/ f.index >= Len(v.times[f.type])
                 THEN w
                 ELSE LET w1 == [w EXCEPT !.viewer.times[f.type] = RemoveAt(@, f.index)]
                          w2 == updateFiducialLines(w1, v.currentX0, v.currentX1)
                      IN  [w2 EXCEPT !.viewer.hoverFiducialIndex_ = -1]

deleteHoveredFiducial(w) ==
    LET v == w.viewer
    IN  IF v.hoverFiducialIndex_ < 0 \/ v.hoverFiducialIndex_ >= Len(v.fiducialsCurrent_)
        THEN w
        ELSE LET f == At(v.fiducialsCurrent_, v.hoverFiducialIndex_)
             IN  IF f.index < 0 \/ f.index >= Len(v.times[f.type])
                 THEN w
                 ELSE LET w1 == [w EXCEPT !.viewer.times[f.type] = RemoveAt(@, f.index),
                                          !.viewer.vals[f.type] = RemoveAt(@, f.index)]
                          w2 == updateFiducialLines(w1, v.currentX0, v.currentX1)
                      IN  [w2 EXCEPT !.viewer.hoverFiducialIndex_ = -1]

\* an insert position that ignores the stored times: always at the end
InsertIndex_atEnd(times, newTime) == Len(times)

\* the number of leading entries of times that are < newTime
InsertIndex(times, newTime) ==
    LET stops == {i \in 0..Len(times) : i = Len(times) \/ ~(times[i + 1] < newTime)}
    IN  CHOOSE i \in stops : \A j \in stops : i <= j

onInsertManualFiducial(w, type) ==
    LET v == w.viewer
        centre == (v.currentX0 + v.currentX1) \div 2
        newTime == Clamp(centre, 0, v.total_time_)
        newVal == CleanValueAt(v.N, newTime)
        insertIndex == InsertIndex(v.times[type], newTime)
        w1 == [w EXCEPT !.viewer.times[type] = InsertAt(@, insertIndex, newTime),
                        !.viewer.vals[type] = InsertAt(@, insertIndex, newVal)]
    IN  updateFiducialLines(w1, v.currentX0, v.currentX1)

\* updatePoint that writes the time and leaves the value as it was
updatePoint_timeOnly(w, f, newTime) ==
    IF f.index >= 0 /\ f.index < Len(w.viewer.times[f.type])
    THEN [w EXCEPT !.viewer.times[f.type][f.index + 1] = newTime]
    ELSE w

updatePoint(w, f, newTime) ==
    IF f.index >= 0 /\ f.index < Len(w.viewer.times[f.type])
    THEN [w EXCEPT !.viewer.times[f.type][f.index + 1] = newTime,
                   !.viewer.vals[f.type][f.index + 1] = CleanValueAt(w.viewer.N, newTime)]
    ELSE w

----------------------------------------------------------------------------
(* Mouse handlers.  x is the time coordinate under the pointer, item the plot
   item under it (<<"note", i>> or <<"fid", i>> with i an index into the
   descriptor list, or NoItem), edge the side of a region within 7 px of
   the pointer. *)

beginItemDrag(w) ==
    [w EXCEPT !.viewer.savedInteractions_ = w.plot.iRangeDrag, !.plot.iRangeDrag = FALSE]

\* a drag end that leaves the plot's interactions as the drag set them
endItemDrag_noRestore(w) == w

endItemDrag(w) ==
    [w EXCEPT !.plot.iRangeDrag = w.viewer.savedInteractions_]

\* a Shift press on a note that tests the right edge before the left one
pressShiftOnNote_rightFirst(w, x, i, edge) ==
    LET v == w.viewer
        nv == At(v.notesCurrent_, i)
        n == At(v.notes_, nv.noteIndex)
        mode == IF edge \in {"right", "both"} THEN "ResizeRight"
                ELSE IF edge = "left" THEN "ResizeLeft" ELSE "Move"
    IN  IF n.duration <= 0
        THEN openNoteEditor(w, nv.noteIndex, "none")
        ELSE [w EXCEPT !.viewer.noteDragMode_ = mode,
                       !.viewer.draggingNote_ = TRUE,
                       !.viewer.activeNoteVisualIndex_ = i,
                       !.viewer.originalStart_ = n.time,
                       !.viewer.originalEnd_ = n.time + n.duration,
                       !.viewer.savedInteractions_ = w.plot.iRangeDrag,
                       !.plot.iRangeDrag = FALSE]

\* edge: the pointer is within 7 px of the left edge, of the right edge, of both, or
\* of neither (inside)
pressShiftOnNote(w, x, i, edge) ==
    LET v == w.viewer
        clickX == Clamp(x, 0, v.total_time_)
        nv == At(v.notesCurrent_, i)
    IN  IF nv.noteIndex < 0 \/ nv.noteIndex >= Len(v.notes_)
        THEN w
        ELSE LET n == At(v.notes_, nv.noteIndex)
                 mode == IF edge \in {"left", "both"} THEN "ResizeLeft"
                         ELSE IF edge = "right" THEN "ResizeRight" ELSE "Move"
             IN  IF n.duration <= 0
                 THEN openNoteEditor(w, nv.noteIndex, "none")
                 ELSE beginItemDrag(
                          [w EXCEPT !.viewer.noteDragMode_ = mode,
                                    !.viewer.draggingNote_ = TRUE,
                                    !.viewer.activeNoteVisualIndex_ = i,
                                    !.viewer.regionPressTime_ = clickX,
                                    !.viewer.originalStart_ = n.time,
                                    !.viewer.originalEnd_ = n.time + n.duration,
                                    !.viewer.noteDragOffsetSeconds_ =
                                        IF mode = "Move" THEN n.time - x ELSE 0])

pressShiftOnEmpty(w, x) ==
    LET v == w.viewer
        clickX == Clamp(x, 0, v.total_time_)
        n == [time |-> clickX, duration |-> SamplePeriod,
              volts |-> CleanValueAt(v.N, clickX), tag |-> Len(v.notes_) + 1]
        w1 == [w EXCEPT !.viewer.creatingRegion_ = TRUE,
                        !.viewer.regionAnchorTime_ = clickX,
                        !.viewer.notes_ = Append(@, n),
                        !.viewer.creatingNoteIndex_ = Len(v.notes_)]
        w2 == updateNoteItems(w1, v.currentX0, v.currentX1)
        w3 == [w2 EXCEPT !.viewer.activeNoteVisualIndex_ =
                   FindVisual(w2.viewer.notesCurrent_, Len(v.notes_), -1)]
    IN  [beginItemDrag(w3) EXCEPT !.viewer.noteDragMode_ = "CreateRegion"]

pressOnNote(w, x, i) ==
    LET v == w.viewer
        nv == At(v.notesCurrent_, i)
    IN  IF nv.noteIndex < 0 \/ nv.noteIndex >= Len(v.notes_)
        THEN [w EXCEPT !.viewer.undefined = TRUE]
        ELSE beginItemDrag(
                 [w EXCEPT !.viewer.draggingNote_ = TRUE,
                           !.viewer.activeNoteVisualIndex_ = i,
                           !.viewer.noteDragMode_ = "Move",
                           !.viewer.noteDragOffsetSeconds_ = At(v.notes_, nv.noteIndex).time - x])

pressOnFiducial(w, x, i) ==
    LET v == w.viewer
        f == At(v.fiducialsCurrent_, i)
    IN  IF f.index < 0 \/ f.index >= Len(v.times[f.type])
        THEN [w EXCEPT !.viewer.undefined = TRUE]
        ELSE beginItemDrag(
                 [w EXCEPT !.viewer.draggingFiducial_ = TRUE,
                           !.viewer.activeFiducialIndex_ = i,
                           !.viewer.dragOffsetSeconds_ = At(v.times[f.type], f.index) - x])

onPlotMousePress(w, x, shiftHeld, item, edge) ==
    IF w.viewer.zoomRectMode_ THEN w
    ELSE IF shiftHeld /\ item[1] = "note" THEN pressShiftOnNote(w, x, item[2], edge)
    ELSE IF shiftHeld /\ item = NoItem THEN pressShiftOnEmpty(w, x)
    ELSE IF item = NoItem THEN w
    ELSE IF item[1] = "note" THEN pressOnNote(w, x, item[2])
    ELSE pressOnFiducial(w, x, item[2])

\* moveCreating that keeps the anchor as the start whatever the direction of the drag
moveCreating_anchorIsStart(w, x) ==
    LET v == w.viewer
        mouseX == Clamp(x, 0, v.total_time_)
        k == v.creatingNoteIndex_ + 1
    IN  [w EXCEPT !.viewer.notes_[k].time = v.regionAnchorTime_,
                  !.viewer.notes_[k].duration = Max(SamplePeriod, Abs(mouseX - v.regionAnchorTime_))]

moveCreating(w, x) ==
    LET v == w.viewer
        mouseX == Clamp(x, 0, v.total_time_)
        t0 == Min(v.regionAnchorTime_, mouseX)
        t1 == Max(v.regionAnchorTime_, mouseX)
        k == v.creatingNoteIndex_ + 1
        w1 == [w EXCEPT !.viewer.notes_[k].time = t0,
                        !.viewer.notes_[k].duration = Max(SamplePeriod, t1 - t0)]
        a == v.activeNoteVisualIndex_
    IN  IF a >= 0 /\ a < Len(v.notesCurrent_) /\ At(v.notesCurrent_, a).noteIndex = v.creatingNoteIndex_
        THEN w1
        ELSE LET w2 == updateNoteItems(w1, v.currentX0, v.currentX1)
             IN  [w2 EXCEPT !.viewer.activeNoteVisualIndex_ =
                     FindVisual(w2.viewer.notesCurrent_, v.creatingNoteIndex_, a)]

\* a Move drag that bounds the start to the record and not the end
moveNote_startBoundOnly(w, x) ==
    LET v == w.viewer
        k == At(v.notesCurrent_, v.activeNoteVisualIndex_).noteIndex + 1
    IN  IF v.noteDragMode_ # "Move" THEN w
        ELSE [w EXCEPT !.viewer.notes_[k].time =
                 Clamp(Clamp(x, 0, v.total_time_) + v.noteDragOffsetSeconds_, 0, v.total_time_)]

\* a resize that moves the start and leaves the duration as it was
moveNote_resizeKeepsDuration(w, x) ==
    LET v == w.viewer
        k == At(v.notesCurrent_, v.activeNoteVisualIndex_).noteIndex + 1
    IN  IF v.noteDragMode_ \in {"ResizeLeft", "ResizeRight"}
        THEN [w EXCEPT !.viewer.notes_[k].time = Clamp(x, 0, v.total_time_)]
        ELSE w

\* a Move drag that adds the offset to the pointer's time as it is, not bounded to the record
moveNote_rawMouse(w, x) ==
    LET v == w.viewer
        k == At(v.notesCurrent_, v.activeNoteVisualIndex_).noteIndex + 1
    IN  IF v.noteDragMode_ # "Move" THEN w
        ELSE [w EXCEPT !.viewer.notes_[k].time =
                 Clamp(x + v.noteDragOffsetSeconds_, 0, v.total_time_)]

moveNote(w, x) ==
    LET v == w.viewer
        total == v.total_time_
        mouseX == Clamp(x, 0, total)
        eps == SamplePeriod
        nv == At(v.notesCurrent_, v.activeNoteVisualIndex_)
        k == nv.noteIndex + 1
        n == v.notes_[k]
    IN  IF v.noteDragMode_ = "CreateRegion"
        THEN LET t0 == Min(v.regionAnchorTime_, mouseX)
                 t1 == Max(v.regionAnchorTime_, mouseX)
             IN  [w EXCEPT !.viewer.notes_[k].time = t0,
                           !.viewer.notes_[k].duration = Max(eps, t1 - t0)]
        ELSE IF v.noteDragMode_ = "ResizeLeft"
        THEN LET newEnd == v.originalEnd_
                 s0 == Clamp(Min(mouseX, newEnd), 0, total)
                 newStart == IF newEnd - s0 < eps THEN newEnd - eps ELSE s0
             IN  [w EXCEPT !.viewer.notes_[k].time = newStart,
                           !.viewer.notes_[k].duration = Max(eps, newEnd - newStart)]
        ELSE IF v.noteDragMode_ = "ResizeRight"
        THEN LET newStart == v.originalStart_
                 e0 == Clamp(Max(mouseX, newStart), 0, total)
                 newEnd == IF e0 - newStart < eps THEN newStart + eps ELSE e0
             IN  [w EXCEPT !.viewer.notes_[k].time = newStart,
                           !.viewer.notes_[k].duration = Max(eps, newEnd - newStart)]
        ELSE LET s0 == Clamp(mouseX + v.noteDragOffsetSeconds_, 0, total)
                 newStart == IF n.duration > 0 /\ s0 + n.duration > total
                             THEN Max(0, total - n.duration) ELSE s0
             IN  [w EXCEPT !.viewer.notes_[k].time = newStart]

moveFiducial(w, x) ==
    LET v == w.viewer
        k == v.activeFiducialIndex_ + 1
        f == v.fiducialsCurrent_[k]
        newTime == Clamp(x + v.dragOffsetSeconds_, 0, v.total_time_)
    IN  updatePoint([w EXCEPT !.viewer.fiducialsCurrent_[k].lineX = newTime], f, newTime)

onPlotMouseMove(w, x, item) ==
    LET v == w.viewer
    IN  IF v.creatingRegion_ /\ v.creatingNoteIndex_ >= 0 /\ v.creatingNoteIndex_ < Len(v.notes_)
        THEN moveCreating(w, x)
        ELSE IF v.draggingNote_ /\ v.activeNoteVisualIndex_ >= 0
        THEN IF v.activeNoteVisualIndex_ >= Len(v.notesCurrent_) THEN w
             ELSE IF At(v.notesCurrent_, v.activeNoteVisualIndex_).noteIndex \notin 0..(Len(v.notes_) - 1)
             THEN w
             ELSE moveNote(w, x)
        ELSE IF v.draggingFiducial_ /\ v.activeFiducialIndex_ >= 0
        THEN IF v.activeFiducialIndex_ >= Len(v.fiducialsCurrent_) THEN w ELSE moveFiducial(w, x)
        ELSE IF v.zoomRectMode_
        THEN [w EXCEPT !.viewer.hoverFiducialIndex_ = -1, !.viewer.hoverNoteIndex_ = -1]
        ELSE [w EXCEPT !.viewer.hoverFiducialIndex_ = IF item[1] = "fid" THEN item[2] ELSE -1,
                       !.viewer.hoverNoteIndex_ = IF item[1] = "note" THEN item[2] ELSE -1]

releaseCreating(w) ==
    LET v == w.viewer
        k == v.creatingNoteIndex_ + 1
        w1 == [w EXCEPT !.viewer.creatingRegion_ = FALSE]
    IN  IF v.creatingNoteIndex_ >= 0 /\ v.creatingNoteIndex_ < Len(v.notes_)
        THEN LET n == v.notes_[k]
                 n1 == IF n.duration < SamplePeriod THEN [n EXCEPT !.duration = 0] ELSE n
                 w2 == [w1 EXCEPT !.viewer.notes_[k] = ClampNote(n1, v.total_time_)]
                 w3 == updateNoteItems(w2, v.currentX0, v.currentX1)
             IN  openNoteEditor(w3, v.creatingNoteIndex_, "release")
        ELSE AfterEditor(w1, "release")

releaseNote(w) ==
    endItemDrag([w EXCEPT !.viewer.draggingNote_ = FALSE,
                          !.viewer.activeNoteVisualIndex_ = -1,
                          !.viewer.noteDragOffsetSeconds_ = 0,
                          !.viewer.noteDragMode_ = "None",
                          !.viewer.originalStart_ = 0,
                          !.viewer.originalEnd_ = 0,
                          !.viewer.regionPressTime_ = 0])

releaseFiducial(w) ==
    LET v == w.viewer
        done == [w EXCEPT !.viewer.draggingFiducial_ = FALSE,
                          !.viewer.activeFiducialIndex_ = -1,
                          !.viewer.dragOffsetSeconds_ = 0]
    IN  IF v.activeFiducialIndex_ >= Len(v.fiducialsCurrent_)
        THEN endItemDrag([done EXCEPT !.viewer.undefined = TRUE])
        ELSE LET f == At(v.fiducialsCurrent_, v.activeFiducialIndex_)
             IN  endItemDrag(updatePoint(done, f, f.lineX))

onPlotMouseRelease(w) ==
    LET v == w.viewer
    IN  IF v.creatingRegion_ THEN releaseCreating(w)
        ELSE IF v.draggingNote_ /\ v.activeNoteVisualIndex_ >= 0 THEN releaseNote(w)
        ELSE IF ~v.draggingFiducial_ \/ v.activeFiducialIndex_ < 0 THEN w
        ELSE releaseFiducial(w)

onPlotMouseDoubleClick(w, item) ==
    IF item[1] # "note" THEN w
    ELSE openNoteEditor(w, At(w.viewer.notesCurrent_, item[2]).noteIndex, "none")

----------------------------------------------------------------------------
(* Keyboard, notes file and notes manager *)

deleteKey(w) ==
    IF w.viewer.hoverNoteIndex_ >= 0 THEN deleteHoveredNote(w) ELSE deleteHoveredFiducial(w)

\* A JSON array is a sequence of values.  An object is a record of its members
\* (a note object has some of time, duration, volts, tag); any other value is
\* [json |-> its kind].  Numbers are written in their shortest exact form.
IsObject(value) == "json" \notin DOMAIN value

\* o.value(key).toDouble(): the member, or the default when the key is missing
Member(o, key, default) == IF key \in DOMAIN o THEN o[key] ELSE default

\* the Note read from a JSON object by onLoadNotes, before the clamp
NoteFromJson(o) ==
    [time |-> Member(o, "time", 0), duration |-> Member(o, "duration", 0),
     volts |-> Member(o, "volts", 0), tag |-> Member(o, "tag", 0)]

\* the JSON object onSaveNotes writes for a note
NoteToJson(n) == [tag |-> n.tag, time |-> n.time, volts |-> n.volts, duration |-> n.duration]

\* the vector onLoadNotes builds from a parsed array: entries that are no object are skipped
LoadedNotes(arr, total_time) ==
    LET objects == SelectSeq(arr, IsObject)
    IN  [k \in 1..Len(objects) |-> ClampLoaded(NoteFromJson(objects[k]), total_time)]

\* onLoadNotes once the file has been parsed as the array arr
onLoadNotes(w, arr) ==
    updateNoteItems([w EXCEPT !.viewer.notes_ = LoadedNotes(arr, w.viewer.total_time_)],
                    w.viewer.currentX0, w.viewer.currentX1)

\* onSaveNotes(true): nothing is written for an empty store or a cancelled
\* chooser; the array written is kept in the trace
onSaveNotes(w, chosen) ==
    IF w.viewer.notes_ = <<>> \/ ~chosen
    THEN w
    ELSE [w EXCEPT !.trace.kind = "saved",
                   !.trace.arr = [k \in 1..Len(w.viewer.notes_) |-> NoteToJson(w.viewer.notes_[k])]]

\* onLoadNotes without the confirmation asked for a file of another recording
onLoadNotesFile_noConfirmation(w, file) ==
    IF ~file.chosen \/ ~file.readable \/ file.doc # "array" THEN w ELSE onLoadNotes(w, file.arr)

\* onLoadNotes: the file chooser, the prefix confirmation, opening and parsing.
\* file tells what the user and the file system answer: a file was chosen, its
\* name starts with the prefix, the user confirmed a mismatch, it opens, and
\* what it holds (malformed text, a JSON value that is no array, the array arr)
onLoadNotesFile(w, file) ==
    IF ~file.chosen THEN w
    ELSE IF ~file.prefixed /\ ~file.confirmed THEN w
    ELSE IF ~file.readable THEN w
    ELSE IF file.doc = "malformed" THEN w
    ELSE IF file.doc # "array" THEN w
    ELSE onLoadNotes(w, file.arr)

onShowNotesDialog(w) == [w EXCEPT !.modal = Append(@, [dlg |-> "notes"])]

notesDialogClose(w) == [w EXCEPT !.modal = SubSeq(@, 1, Len(@) - 1)]

notesDialogNew(w) ==
    LET v == w.viewer
        newTime == Clamp((v.currentX0 + v.currentX1) \div 2, 0, v.total_time_)
        n == [time |-> newTime, duration |-> 0,
              volts |-> CleanValueAt(v.N, newTime), tag |-> Len(v.notes_) + 1]
    IN  openNoteEditor([w EXCEPT !.viewer.notes_ = Append(@, n)], Len(v.notes_), "mgrNew")

notesDialogEdit(w, idx) ==
    IF idx < 0 \/ idx >= Len(w.viewer.notes_) THEN w ELSE openNoteEditor(w, idx, "mgrEdit")

notesDialogDelete(w, idx) ==
    IF idx < 0 \/ idx >= Len(w.viewer.notes_) THEN w
    ELSE updateNoteItems([w EXCEPT !.viewer.notes_ = RemoveAt(@, idx)],
                         w.viewer.currentX0, w.viewer.currentX1)

\* double click in the list: recentre on the note, then edit it.  Half a window
\* is kept exact by doubling: x0 = max(0, (2 time - window_s_) / 2).
notesDialogDoubleClicked(w, idx) ==
    IF idx < 0 \/ idx >= Len(w.viewer.notes_) THEN w
    ELSE LET v == w.viewer
             n == At(v.notes_, idx)
             x0 == Max(0, (2 * n.time - v.window_s_) \div 2)
             x1 == Min(v.total_time_, x0 + v.window_s_)
             startSample == Clamp(TruncDiv(Max(0, 2 * n.time - v.window_s_), 2 * TicksPerSample),
                                  0, v.max_start_sample_)
             w1 == [w EXCEPT !.viewer.currentX0 = x0, !.viewer.currentX1 = x1]
         IN  Force(xAxisSetRange(w1, x0, x1),
                   LAMBDA w2 : Force(updateWindow(w2, startSample),
                                     LAMBDA w3 : openNoteEditor(w3, idx, "none")))

----------------------------------------------------------------------------
(* Construction *)

EmptyStore == [k \in {"P", "Q", "R", "S", "T"} |-> <<>>]

\* ./ECGData before the first Save: neither file exists
NoFiles == [json |-> [exists |-> FALSE, arr |-> <<>>], csv |-> [exists |-> FALSE, rows |-> <<>>]]

NoTrace ==
    [op |-> "construct", a |-> 0, b |-> 0, kind |-> "none", pure |-> TRUE, notesBefore |-> 0,
     arr |-> <<>>, written |-> <<>>, axisWrites |-> 0, unguardedWrites |-> 0,
     callDepth |-> 0, bodyActive |-> 0, bodyActiveMax |-> 0, overflow |-> FALSE,
     refresh |-> -1]

\* no button held; a gesture is the events from a left press to its release.
\* For a region creation a is where the press was and b where the pointer was
\* last seen, pure tells that only mouse events came since the press.
\* target is the fiducial <<type, index>> the last hover hit-test found under the
\* pointer, while the fiducial stores are as they were at that move.
\* picked is the store entry a drag was begun on, <<type, index>> of a fiducial or
\* <<"note", index>>, followed through the removals; <<"gone", -1>> once removed.
NoGesture ==
    [down |-> FALSE, kind |-> "none", a |-> 0, b |-> 0, pure |-> TRUE, notesBefore |-> 0,
     target |-> <<"none", -1>>, picked |-> <<"none", -1>>]

\* the trace of a new event; an event that is not of the mouse interrupts the gesture
BeginEvent(w, op, a, b) ==
    [w EXCEPT !.trace = [NoTrace EXCEPT !.op = op, !.a = a, !.b = b],
              !.mouse.pure = IF w.mouse.kind = "CreateRegion" THEN FALSE ELSE @]

\* the trace of a new mouse event
BeginMouse(w, op, a, b) == [w EXCEPT !.trace = [NoTrace EXCEPT !.op = op, !.a = a, !.b = b]]

\* ECGViewer::ECGViewer for n samples, the requested window and the fiducial times
\* the y-range set without ylim, (-0.1, 0.15) V, in units of 0.05 V
YDefault == <<-2, 3>>

ConstructShowing(n, window_s, times, hide_artifacts) ==
    LET span == TRel(n - 1)
        total_time == IF span <= 0 THEN SamplePeriod ELSE span
        window == IF window_s <= 0 \/ window_s > total_time THEN total_time ELSE window_s
        min_window == Max(TicksPerSecond \div 20, (5 * TicksPerSecond) \div Max(Fs, 1))
        ws0 == SampleFloor(window)
        window_samples == IF ws0 <= 0 THEN Min(n, 1) ELSE ws0
        max_start == Max(0, n - window_samples - 1)
        w0 == [viewer |->
                 [N |-> n,
                  total_time_ |-> total_time,
                  window_s_ |-> window,
                  window_s_original_ |-> window,
                  min_window_s_ |-> min_window,
                  window_samples_ |-> window_samples,
                  max_start_sample_ |-> max_start,
                  suppressRangeHandler_ |-> FALSE,
                  zoomRectMode_ |-> FALSE,
                  currentX0 |-> 0,
                  currentX1 |-> 0,
                  times |-> times,
                  vals |-> [k \in DOMAIN times |->
                               [i \in 1..Len(times[k]) |-> CleanValueAt(n, times[k][i])]],
                  notes_ |-> <<>>,
                  fiducialsCurrent_ |-> <<>>,
                  fiducialItems_ |-> <<>>,
                  notesCurrent_ |-> <<>>,
                  noteItems_ |-> <<>>,
                  hoverFiducialIndex_ |-> -1,
                  hoverNoteIndex_ |-> -1,
                  draggingFiducial_ |-> FALSE,
                  activeFiducialIndex_ |-> -1,
                  dragOffsetSeconds_ |-> 0,
                  draggingNote_ |-> FALSE,
                  activeNoteVisualIndex_ |-> -1,
                  noteDragOffsetSeconds_ |-> 0,
                  noteDragMode_ |-> "None",
                  creatingRegion_ |-> FALSE,
                  creatingNoteIndex_ |-> -1,
                  regionAnchorTime_ |-> 0,
                  regionPressTime_ |-> 0,
                  originalStart_ |-> 0,
                  originalEnd_ |-> 0,
                  savedInteractions_ |-> TRUE,
                  hide_artifacts_ |-> hide_artifacts,
                  y_min_orig_ |-> YDefault[1],
                  y_max_orig_ |-> YDefault[2],
                  undefined |-> FALSE],
               plot |-> [lower |-> 0, upper |-> 5 * TicksPerSecond, iRangeDrag |-> TRUE,
                         yLower |-> YDefault[1], yUpper |-> YDefault[2], items |-> {},
                         graphCleanBase |-> <<>>, graphOrigFull |-> <<>>,
                         graphOrigFullVisible |-> TRUE],
               slider |-> [value |-> 0, maximum |-> max_start],
               modal |-> <<>>,
               mouse |-> NoGesture,
               trace |-> NoTrace,
               disk |-> NoFiles]
    IN  Force(w0, LAMBDA w : updateWindow(w, 0))

\* the viewer opened with hide_artifacts = false, the default of show_ecg_viewer
Construct(n, window_s, times) == ConstructShowing(n, window_s, times, FALSE)

Assign(world) ==
    \E w \in {world} :
        /\ viewer = w.viewer
        /\ plot = w.plot
        /\ slider = w.slider
        /\ modal = w.modal
        /\ mouse = w.mouse
        /\ trace = w.trace
        /\ disk = w.disk

\* requested initial window lengths: full view, below the minimum, five and eight samples
WindowRequests == {0, 2 * TicksPerSample, 5 * TicksPerSample, 8 * TicksPerSample}

InitViewport ==
    \E n \in {NShort, NSamples}, window_s \in WindowRequests :
        Assign(Construct(n, window_s, EmptyStore))

----------------------------------------------------------------------------
(* Viewport events *)

Idle == modal = <<>>

\* the user moves the slider to position i
SliderMove ==
    \E i \in 0..slider.maximum :
        /\ Idle
        /\ ~mouse.down
        /\ i # slider.value
        /\ Commit(QSlider_setValue(BeginEvent(World, "slider", i, 0), i))

\* keyPressEvent, Left / A
KeyLeft ==
    /\ Idle
    /\ Commit(nudge(BeginEvent(World, "left", slider.value, 0),
                    -TruncDiv(2 * viewer.window_samples_, 10)))

\* keyPressEvent, Right / D
KeyRight ==
    /\ Idle
    /\ Commit(nudge(BeginEvent(World, "right", slider.value, 0),
                    TruncDiv(2 * viewer.window_samples_, 10)))

\* Zoom In: updateWindowLength(window_s_ / 1.5)
ZoomIn ==
    /\ Idle
    /\ ~mouse.down
    /\ Commit(updateWindowLength(BeginEvent(World, "zoomIn", 0, 0), 2 * viewer.window_s_, 3))

\* Zoom Out: updateWindowLength(window_s_ * 1.5)
ZoomOut ==
    /\ Idle
    /\ ~mouse.down
    /\ Commit(updateWindowLength(BeginEvent(World, "zoomOut", slider.value, 0),
                                 3 * viewer.window_s_, 2))

\* Reset View: updateWindowLength(window_s_original_)
ResetView ==
    /\ Idle
    /\ ~mouse.down
    /\ Commit([updateWindowLength(BeginEvent(World, "reset", 0, 0), viewer.window_s_original_, 1)
                  EXCEPT !.plot.yLower = viewer.y_min_orig_,
                         !.plot.yUpper = viewer.y_max_orig_])

\* lower bounds and widths of the ranges the toolkit proposes (range drag, wheel zoom)
RangeLowers ==
    {-TicksPerSample, 0, TicksPerSample \div 2,
     viewer.total_time_ - TicksPerSample}
RangeWidths == {viewer.window_s_, 3 * TicksPerSample, viewer.total_time_ + TicksPerSample}

\* the toolkit changes the x-range: a range drag keeps the width and needs iRangeDrag
ExternalRangeChange ==
    \E lo \in RangeLowers, width \in RangeWidths :
        /\ Idle
        /\ ~(lo = plot.lower /\ lo + width = plot.upper)
        /\ (width = plot.upper - plot.lower) => plot.iRangeDrag
        /\ Commit(QCPAxis_setRange(BeginEvent(World, "range", lo, lo + width), lo, lo + width))

----------------------------------------------------------------------------
(* Mouse, keyboard and dialog events *)

MaxNotes == 1
MaxFiducials == 3
MaxLoaded == 2

\* time coordinates the pointer can be at: inside the record, at both ends, beyond them
PointerTimes ==
    {-TicksPerSample, 0, TicksPerSample \div 2, viewer.total_time_ - TicksPerSample,
     viewer.total_time_ - TicksPerSample \div 2, viewer.total_time_}

\* a press lands on the plot: in the displayed range or in the margin next to it
OnPlot(x) == plot.lower - TicksPerSample <= x /\ x <= plot.upper + TicksPerSample

\* what itemAt can return: nothing, or an item of a descriptor on the plot
ItemsUnderPointer ==
    {NoItem} \cup {<<"note", i>> : i \in 0..(Len(viewer.notesCurrent_) - 1)}
             \cup {<<"fid", i>> : i \in 0..(Len(viewer.fiducialsCurrent_) - 1)}

FiducialCount == Len(viewer.times["P"]) + Len(viewer.times["Q"]) + Len(viewer.times["R"])
                    + Len(viewer.times["S"]) + Len(viewer.times["T"])

GestureKind(w) ==
    IF w.viewer.creatingRegion_ THEN "CreateRegion"
    ELSE IF w.viewer.draggingNote_ THEN w.viewer.noteDragMode_
    ELSE IF w.viewer.draggingFiducial_ THEN "Fiducial"
    ELSE "none"

\* the store entry the drag just begun works on
PickedAt(v) ==
    IF v.draggingNote_
    THEN <<"note", At(v.notesCurrent_, v.activeNoteVisualIndex_).noteIndex>>
    ELSE IF v.draggingFiducial_
    THEN <<At(v.fiducialsCurrent_, v.activeFiducialIndex_).type,
           At(v.fiducialsCurrent_, v.activeFiducialIndex_).index>>
    ELSE NoItem

\* left button pressed at x, Shift held or not as shifts allows
MousePressWith(shifts) ==
    \E x \in PointerTimes, shiftHeld \in shifts, item \in ItemsUnderPointer,
       edge \in {"left", "right", "both", "inside"} :
        /\ Idle
        /\ ~mouse.down
        /\ OnPlot(x)
        /\ (edge # "inside") => (shiftHeld /\ item[1] = "note")
        /\ (shiftHeld /\ item = NoItem) => Len(viewer.notes_) < MaxNotes
        /\ Commit(Force(onPlotMousePress(BeginMouse(World, "press", 0, 0), x, shiftHeld, item, edge),
                        LAMBDA w1 :
                          [w1 EXCEPT !.trace.a = IF GestureKind(w1) = "none" THEN 0 ELSE x,
                                     !.trace.b = IF shiftHeld /\ item[1] = "note" THEN item[2] ELSE 0,
                                     !.trace.kind = IF shiftHeld /\ item[1] = "note" THEN edge ELSE @,
                                     !.mouse =
                              IF w1.modal # <<>> THEN NoGesture
                              ELSE IF GestureKind(w1) = "CreateRegion"
                              THEN [down |-> TRUE, kind |-> "CreateRegion", a |-> x, b |-> x,
                                    pure |-> TRUE, notesBefore |-> Len(viewer.notes_),
                                    target |-> NoItem, picked |-> NoItem]
                              ELSE [NoGesture EXCEPT !.down = TRUE, !.kind = GestureKind(w1),
                                                     !.picked = PickedAt(w1.viewer)]]))

MousePress == MousePressWith(BOOLEAN)

\* a press without Shift: drags of the items on the plot
MousePressPlain == MousePressWith({FALSE})

\* a move with no gesture in progress reaches the hover hit-test of onPlotMouseMove
HoverTested(v) ==
    /\ ~(v.creatingRegion_ /\ v.creatingNoteIndex_ >= 0 /\ v.creatingNoteIndex_ < Len(v.notes_))
    /\ ~(v.draggingNote_ /\ v.activeNoteVisualIndex_ >= 0)
    /\ ~(v.draggingFiducial_ /\ v.activeFiducialIndex_ >= 0)

\* the store entry of the fiducial descriptor whose line or label is item
HitFiducial(v, item) ==
    IF ~v.zoomRectMode_ /\ item[1] = "fid"
    THEN <<At(v.fiducialsCurrent_, item[2]).type, At(v.fiducialsCurrent_, item[2]).index>>
    ELSE NoItem

\* the store entry of the note descriptor whose line, label or rectangle is item
HitNote(v, item) ==
    IF ~v.zoomRectMode_ /\ item[1] = "note"
    THEN <<"note", At(v.notesCurrent_, item[2]).noteIndex>>
    ELSE NoItem

\* pointer moved to x, over item
MouseMove ==
    \E x \in PointerTimes, item \in ItemsUnderPointer :
        /\ Idle
        /\ Commit([onPlotMouseMove(BeginMouse(World, "move", IF HoverTested(viewer) THEN 0 ELSE x, 0),
                                   x, item)
                      EXCEPT !.mouse.b = IF mouse.kind = "CreateRegion" THEN x ELSE @,
                             !.mouse.target = IF ~HoverTested(viewer) THEN @
                                              ELSE IF item[1] = "note" THEN HitNote(viewer, item)
                                              ELSE HitFiducial(viewer, item)])

\* left button released; the trace keeps where a region creation began and ended
MouseRelease ==
    /\ Idle
    /\ mouse.down
    /\ Commit(Force(onPlotMouseRelease(
                        IF mouse.kind = "CreateRegion"
                        THEN BeginMouse(World, "release", mouse.a, mouse.b)
                        ELSE BeginMouse(World, "release", 0, 0)),
                    LAMBDA w1 : [w1 EXCEPT !.trace.kind = mouse.kind,
                                           !.trace.pure = mouse.pure,
                                           !.trace.notesBefore = mouse.notesBefore,
                                           !.mouse = NoGesture]))

MouseDoubleClick ==
    \E item \in ItemsUnderPointer :
        /\ Idle
        /\ ~mouse.down
        /\ item # NoItem
        /\ Commit(onPlotMouseDoubleClick(BeginEvent(World, "doubleClick", 0, 0), item))

\* keyPressEvent, Delete / Backspace
\* the store entry the Delete key removes in v: the one deleteKey reaches
RemovedBy(v) ==
    IF v.hoverNoteIndex_ >= 0
    THEN IF v.hoverNoteIndex_ < Len(v.notesCurrent_)
            /\ At(v.notesCurrent_, v.hoverNoteIndex_).noteIndex \in 0..(Len(v.notes_) - 1)
         THEN <<"note", At(v.notesCurrent_, v.hoverNoteIndex_).noteIndex>>
         ELSE NoItem
    ELSE IF v.hoverFiducialIndex_ >= 0 /\ v.hoverFiducialIndex_ < Len(v.fiducialsCurrent_)
    THEN LET f == At(v.fiducialsCurrent_, v.hoverFiducialIndex_)
         IN  IF f.index >= 0 /\ f.index < Len(v.times[f.type]) THEN <<f.type, f.index>> ELSE NoItem
    ELSE NoItem

\* where the entry picked is after the removal of the entry removed
AfterRemoval(picked, removed) ==
    IF removed = NoItem \/ removed[1] # picked[1] THEN picked
    ELSE IF removed[2] = picked[2] THEN <<"gone", -1>>
    ELSE IF removed[2] < picked[2] THEN <<picked[1], picked[2] - 1>>
    ELSE picked

KeyDelete ==
    /\ Idle
    /\ Commit([deleteKey(BeginEvent(World, "delete", 0, 0)) EXCEPT
                  !.mouse.target = NoItem,
                  !.mouse.picked = AfterRemoval(@, RemovedBy(viewer))])

\* the type chosen in the combo box: its default
ManualChoices == {"R"}

\* the Insert button with one of the types in choices chosen in the combo box
InsertManualFiducialOf(choices) ==
    \E type \in choices :
        /\ Idle
        /\ ~mouse.down
        /\ FiducialCount < MaxFiducials
        /\ Commit(onInsertManualFiducial(
                      [BeginEvent(World, "insert", 0, 0) EXCEPT !.trace.kind = type,
                                                                !.mouse.target = NoItem],
                      type))

InsertManualFiducial == InsertManualFiducialOf(ManualChoices)

\* the Zoom Rect button toggled
ZoomRectToggle ==
    /\ Idle
    /\ ~mouse.down
    /\ Commit([BeginEvent(World, "zoomRect", 0, 0) EXCEPT
                  !.viewer.zoomRectMode_ = ~viewer.zoomRectMode_,
                  !.plot.iRangeDrag = viewer.zoomRectMode_])

TopDialog == IF modal = <<>> THEN "none" ELSE modal[Len(modal)].dlg

\* values the time and duration boxes of the editor can hold on OK
EditorTimes == {TicksPerSample, viewer.total_time_}
EditorDurations == {0, TicksPerSample \div 2, viewer.total_time_}

EditorAccept ==
    \E time \in EditorTimes, duration \in EditorDurations :
        /\ TopDialog = "editor"
        /\ Commit(editorAccepted(BeginEvent(World, "editorOk", 0, 0), time, duration))

EditorReject ==
    /\ TopDialog = "editor"
    /\ Commit(editorRejected(BeginEvent(World, "editorCancel", 0, 0)))

ShowNotesDialog ==
    /\ Idle
    /\ ~mouse.down
    /\ Commit(onShowNotesDialog(BeginEvent(World, "notes", 0, 0)))

NotesDialogClose ==
    /\ TopDialog = "notes"
    /\ Commit(notesDialogClose(BeginEvent(World, "mgrClose", 0, 0)))

NotesDialogNew ==
    /\ TopDialog = "notes"
    /\ Len(viewer.notes_) < MaxNotes
    /\ Commit(notesDialogNew(BeginEvent(World, "mgrNew", 0, 0)))

NotesDialogEdit ==
    \E idx \in 0..(Len(viewer.notes_) - 1) :
        /\ TopDialog = "notes"
        /\ Commit(notesDialogEdit(BeginEvent(World, "mgrEdit", 0, 0), idx))

NotesDialogDelete ==
    \E idx \in 0..(Len(viewer.notes_) - 1) :
        /\ TopDialog = "notes"
        /\ Commit(notesDialogDelete(BeginEvent(World, "mgrDelete", 0, 0), idx))

NotesDialogDoubleClicked ==
    \E idx \in 0..(Len(viewer.notes_) - 1) :
        /\ TopDialog = "notes"
        /\ Commit(notesDialogDoubleClicked(BeginEvent(World, "mgrDoubleClick", idx, 0), idx))

\* entries a notes file can hold: objects with any JSON numbers for time and
\* duration, an object without a duration, a value that is no object
LoadedEntries ==
    {[time |-> t, duration |-> d, volts |-> 0, tag |-> 1] :
        t \in {-TicksPerSample, TicksPerSample},
        d \in {-TicksPerSample, 2 * TicksPerSample, viewer.total_time_ + TicksPerSample}}
      \cup {[time |-> viewer.total_time_ + TicksPerSample, volts |-> 0, tag |-> 1],
            [json |-> "number"]}

LoadedFiles == UNION {[1..len -> LoadedEntries] : len \in 0..MaxLoaded}

\* a file of this recording holding the array arr
GoodFile(arr) ==
    [chosen |-> TRUE, prefixed |-> TRUE, confirmed |-> FALSE, readable |-> TRUE,
     doc |-> "array", arr |-> arr]

\* loads that end early; each of the files would give one note if it were read
AbandonedLoads ==
    LET file == GoodFile(<<[time |-> TicksPerSample, duration |-> 0, volts |-> 0, tag |-> 1]>>)
    IN  {[file EXCEPT !.chosen = FALSE],
         [file EXCEPT !.prefixed = FALSE],
         [file EXCEPT !.readable = FALSE],
         [file EXCEPT !.doc = "malformed"],
         [file EXCEPT !.doc = "object"]}

\* loads of another recording's file that the user confirms
ConfirmedLoads ==
    {[GoodFile(<<entry>>) EXCEPT !.prefixed = FALSE, !.confirmed = TRUE] : entry \in LoadedEntries}

LoadFiles == {GoodFile(arr) : arr \in LoadedFiles} \cup ConfirmedLoads \cup AbandonedLoads

\* how a load ends
LoadOutcome(file) ==
    IF ~file.chosen THEN "cancelled"
    ELSE IF ~file.prefixed /\ ~file.confirmed THEN "declined"
    ELSE IF ~file.readable THEN "unreadable"
    ELSE IF file.doc = "malformed" THEN "parseError"
    ELSE IF file.doc # "array" THEN "notArray"
    ELSE "loaded"

NotesDialogLoad ==
    \E file \in LoadFiles :
        /\ TopDialog = "notes"
        /\ Commit(onLoadNotesFile(
                      [BeginEvent(World, "load", 0, 0) EXCEPT
                          !.trace.kind = LoadOutcome(file),
                          !.trace.arr = IF LoadOutcome(file) = "loaded" THEN file.arr ELSE <<>>],
                      file))

\* the Save button of the notes manager
\* onSave: the notes go to the default JSON file when the store is not empty and the
\* file opens (onSaveNotes(false)); then the rows "tag,time,voltage" of the five kinds,
\* in the order P, Q, R, S, T, go to the CSV file when it opens
onSave(w, jsonOpens, csvOpens) ==
    LET v == w.viewer
        arr == [k \in 1..Len(v.notes_) |-> NoteToJson(v.notes_[k])]
        RowsOf(type) == [i \in 1..Len(v.times[type]) |->
                            <<type, v.times[type][i], v.vals[type][i]>>]
        rows == RowsOf("P") \o RowsOf("Q") \o RowsOf("R") \o RowsOf("S") \o RowsOf("T")
        w1 == IF v.notes_ # <<>> /\ jsonOpens
              THEN [w EXCEPT !.disk.json = [exists |-> TRUE, arr |-> arr]]
              ELSE w
    IN  IF ~csvOpens
        THEN [w1 EXCEPT !.trace.kind = "warning"]
        ELSE [w1 EXCEPT !.trace.kind = "saved",
                        !.disk.csv = [exists |-> TRUE, rows |-> rows]]

\* the Save button of the main window
Save ==
    \E jsonOpens \in BOOLEAN, csvOpens \in BOOLEAN :
        /\ Idle
        /\ ~mouse.down
        /\ Commit(onSave(BeginEvent(World, "saveAll", IF jsonOpens THEN 1 ELSE 0, 0),
                        jsonOpens, csvOpens))

NotesDialogSave ==
    \E chosen \in BOOLEAN :
        /\ TopDialog = "notes"
        /\ Commit(onSaveNotes(BeginEvent(World, "save", 0, 0), chosen))

NextViewport ==
    \/ SliderMove
    \/ KeyLeft
    \/ KeyRight
    \/ ZoomIn
    \/ ZoomOut
    \/ ResetView
    \/ ExternalRangeChange
    \/ ShowNotesDialog
    \/ NotesDialogNew
    \/ NotesDialogDoubleClicked
    \/ NotesDialogDelete
    \/ NotesDialogClose
    \/ EditorAccept
    \/ EditorReject

SpecViewport == InitViewport /\ [][NextViewport]_vars

----------------------------------------------------------------------------
(* Fiducial markers: drag, hover and delete, manual insert *)

\* a short record with two R markers, the window one sample long
InitFiducials ==
    Assign(Construct(NShort, TicksPerSample,
                     [EmptyStore EXCEPT !["R"] = <<0, TicksPerSample>>]))

NextFiducials ==
    \/ MousePressPlain
    \/ MouseMove
    \/ MouseRelease
    \/ KeyDelete
    \/ InsertManualFiducial

SpecFiducials == InitFiducials /\ [][NextFiducials]_vars

----------------------------------------------------------------------------
(* Mouse gestures on notes: region creation, move, resize, hover and delete *)

\* the window is four and a half samples long, one and a half short of the record
InitMouse == Assign(Construct(NMid, TRel(NMid - 1) - (3 * TicksPerSample) \div 2, EmptyStore))

NextMouse ==
    \/ MousePress
    \/ MouseMove
    \/ MouseRelease
    \/ KeyDelete
    \/ EditorAccept
    \/ EditorReject

SpecMouse == InitMouse /\ [][NextMouse]_vars

----------------------------------------------------------------------------
(* The notes manager: new, edit, delete, recentre, load *)

InitNotes == Assign(Construct(NMid, 5 * TicksPerSample, EmptyStore))

NextNotes ==
    \/ MouseMove
    \/ MouseDoubleClick
    \/ KeyDelete
    \/ EditorAccept
    \/ EditorReject
    \/ ShowNotesDialog
    \/ NotesDialogClose
    \/ NotesDialogNew
    \/ NotesDialogEdit
    \/ NotesDialogDelete
    \/ NotesDialogDoubleClicked
    \/ NotesDialogLoad
    \/ NotesDialogSave
    \/ ZoomRectToggle

SpecNotes == InitNotes /\ [][NextNotes]_vars

----------------------------------------------------------------------------
(* Viewport properties *)

\* C1: once an event has been handled, the slider position (the start sample)
\* lies in 0..max_start_sample, and max_start_sample is
\* max(0, N - window_samples - 1) for the current window.
C1_StartSampleInRange ==
    /\ 0 <= slider.value
    /\ slider.value <= viewer.max_start_sample_
    /\ viewer.max_start_sample_ = Max(0, viewer.N - viewer.window_samples_ - 1)

\* C1 witness: a recentring on a note has put the slider on a positive maximum
C1_Witness ==
    /\ trace.op = "mgrDoubleClick"
    /\ slider.value > 0
    /\ slider.value = viewer.max_start_sample_

\* C2: after construction and after every Zoom In, Zoom Out and Reset View,
\* min_window_seconds <= window_seconds <= total_time.
C2_WindowWithinLimits ==
    trace.op \in {"construct", "zoomIn", "zoomOut", "reset"} =>
        /\ viewer.min_window_s_ <= viewer.window_s_
        /\ viewer.window_s_ <= viewer.total_time_

\* C5: when an external change of the x-range has been handled, exactly one
\* programmatic write of the x-range has been made, the axis starts at
\* t_rel[start_sample] for the final slider position and is window_seconds long.
C5_OneWriteAndAligned ==
    trace.op = "range" =>
        /\ trace.axisWrites = 1
        /\ plot.lower = TRel(slider.value)
        /\ plot.upper = plot.lower + viewer.window_s_

\* C6: handling an event terminates (the signal chain never exhausts the call
\* depth), the body of the range-changed handler is never entered while
\* another invocation of it is active, and suppress_range_handler is false
\* once no handler is running.
C6_NoReentryAndGuardLowered ==
    /\ ~trace.overflow
    /\ trace.bodyActiveMax <= 1
    /\ trace.bodyActive = 0
    /\ trace.callDepth = 0
    /\ ~viewer.suppressRangeHandler_

\* C6 witness: an external range change whose handler moved the slider, so that
\* updateWindow wrote the axis while the handler was still running
C6_Witness ==
    /\ trace.op = "range"
    /\ trace.bodyActiveMax = 1
    /\ trace.axisWrites >= 2

\* C10: a slider move to position i ends with the slider at i and the displayed
\* window at [t_rel[i], t_rel[i] + window_seconds].
C10_SliderStaysWhereSet ==
    trace.op = "slider" =>
        /\ slider.value = trace.a
        /\ plot.lower = TRel(trace.a)
        /\ plot.upper = plot.lower + viewer.window_s_

----------------------------------------------------------------------------
(* Note properties *)

\* C3: in every reachable state every note n of the store has 0 <= n.time and
\* n.time + max(0, n.duration) <= total_time.
C3_NotesWithinRecord ==
    \A k \in 1..Len(viewer.notes_) :
        /\ 0 <= viewer.notes_[k].time
        /\ viewer.notes_[k].time + Max(0, viewer.notes_[k].duration) <= viewer.total_time_

\* the release that ends a region creation made of mouse events only
CreationReleased ==
    /\ trace.op = "release"
    /\ trace.kind = "CreateRegion"
    /\ trace.pure

\* the note a finished region creation appended
CreatedNote == viewer.notes_[trace.notesBefore + 1]

\* C8: a Shift-press on empty space at a, moves, and a release with the pointer
\* at b where |b - a| < 1/fs leave the created note with duration 0.
C8_ShortGestureMakesPoint ==
    (CreationReleased /\ Abs(trace.b - trace.a) < SamplePeriod) =>
        /\ Len(viewer.notes_) = trace.notesBefore + 1
        /\ CreatedNote.duration = 0

\* a finished region creation from a to b, both in the record, at least 1/fs apart
RegionDrawn ==
    /\ CreationReleased
    /\ trace.a \in 0..viewer.total_time_
    /\ trace.b \in 0..viewer.total_time_
    /\ Abs(trace.b - trace.a) >= SamplePeriod

\* the descriptors of the created note
CreatedDescriptors ==
    {k \in 1..Len(viewer.notesCurrent_) : viewer.notesCurrent_[k].noteIndex = trace.notesBefore}

\* C9 as stated: the gesture appends exactly one note with time min(a, b) and
\* duration |b - a|, and a rectangle descriptor (rect set, line unset) renders it.
C9_RegionStoredAndRendered ==
    RegionDrawn =>
        /\ Len(viewer.notes_) = trace.notesBefore + 1
        /\ CreatedNote.time = Min(trace.a, trace.b)
        /\ CreatedNote.duration = Abs(trace.b - trace.a)
        /\ \E k \in CreatedDescriptors :
              viewer.notesCurrent_[k].rect /\ ~viewer.notesCurrent_[k].line

\* C9 amended: the gesture appends exactly one note with time min(a, b) and
\* duration |b - a|; a rectangle descriptor renders it exactly when the region
\* overlaps the current window [currentX0, currentX1], else nothing renders it.
C9_RegionStoredAndRenderedIfVisible ==
    RegionDrawn =>
        /\ Len(viewer.notes_) = trace.notesBefore + 1
        /\ CreatedNote.time = Min(trace.a, trace.b)
        /\ CreatedNote.duration = Abs(trace.b - trace.a)
        /\ IF Max(trace.a, trace.b) < viewer.currentX0 \/ Min(trace.a, trace.b) > viewer.currentX1
           THEN CreatedDescriptors = {}
           ELSE /\ Cardinality(CreatedDescriptors) = 1
                /\ \A k \in CreatedDescriptors :
                      viewer.notesCurrent_[k].rect /\ ~viewer.notesCurrent_[k].line

\* C9 witness: a region drawn right to left inside the window, rendered by a rectangle
C9_Witness ==
    /\ RegionDrawn
    /\ trace.b < trace.a
    /\ CreatedNote.time = trace.b
    /\ CreatedDescriptors # {}

----------------------------------------------------------------------------
(* Fiducial and overlay properties *)

NonDecreasing(seq) == \A i \in 1..(Len(seq) - 1) : seq[i] <= seq[i + 1]

\* C7 as stated: whatever inserts, drags and deletes came before, the times of
\* a kind are non-decreasing right after a manual insert into it.
C7_SortedAfterInsert ==
    trace.op = "insert" => NonDecreasing(viewer.times[trace.kind])

\* C7 amended: a manual insert into a kind whose times are non-decreasing leaves
\* them non-decreasing; an order broken by a drag is not repaired by the insert.
C7_InsertKeepsSorted ==
    [][(trace'.op = "insert" /\ NonDecreasing(viewer.times[trace'.kind]))
          => NonDecreasing(viewer'.times[trace'.kind])]_vars

\* C7 witness: after drags, an insert has put a time strictly between two others
C7_Witness ==
    /\ trace.op = "insert"
    /\ NonDecreasing(viewer.times[trace.kind])
    /\ \E i \in 2..(Len(viewer.times[trace.kind]) - 1) :
          /\ viewer.times[trace.kind][i - 1] < viewer.times[trace.kind][i]
          /\ viewer.times[trace.kind][i] < viewer.times[trace.kind][i + 1]
          /\ viewer.times[trace.kind][i] = (viewer.currentX0 + viewer.currentX1) \div 2

\* events that change a store or the viewport
MutatingOps ==
    {"insert", "delete", "release", "editorOk", "load", "mgrNew", "mgrDelete",
     "slider", "left", "right", "zoomIn", "zoomOut", "reset", "range"}

\* the store entries the fiducial descriptors stand for, in list order
FiducialEntries(descriptors) ==
    [k \in 1..Len(descriptors) |-> <<descriptors[k].type, descriptors[k].index>>]

\* C4: after every completed event that changes a store or the viewport, the
\* fiducial and note descriptor lists are what recomputing them from the stores
\* and the displayed x-range gives.
C4_OverlaysMatchStoresAndRange ==
    (trace.op \in MutatingOps /\ TopDialog # "editor") =>
        /\ FiducialEntries(viewer.fiducialsCurrent_)
              = FiducialEntries(FiducialDescriptors(viewer.times, plot.lower, plot.upper))
        /\ viewer.notesCurrent_ = NoteDescriptors(viewer.notes_, plot.lower, plot.upper)

----------------------------------------------------------------------------
(* Key pan *)

\* the pan step of keyPressEvent: static_cast<int>(0.2 * window_samples_)
PanStep == TruncDiv(2 * viewer.window_samples_, 10)

\* C11: Right/D from start sample s ends with the slider at
\* min(s + step, max_start_sample) and Left/A with it at max(s - step, 0), where
\* step = floor(0.2 * window_samples); afterwards the axis starts at
\* t_rel[start_sample] and is window_seconds long.
C11_KeyPanLands ==
    trace.op \in {"left", "right"} =>
        /\ trace.op = "right" =>
              slider.value = Min(trace.a + PanStep, viewer.max_start_sample_)
        /\ trace.op = "left" => slider.value = Max(trace.a - PanStep, 0)
        /\ plot.lower = TRel(slider.value)
        /\ plot.upper = plot.lower + viewer.window_s_

----------------------------------------------------------------------------
(* Fiducial store under insert, hover, delete and key pan *)

\* the long record, the window five samples long, one P and two R markers
InitMarkers ==
    Assign(Construct(NSamples, 5 * TicksPerSample,
                     [EmptyStore EXCEPT !["P"] = <<0>>, !["R"] = <<TRel(2), TRel(4)>>]))

NextMarkers ==
    \/ MouseMove
    \/ KeyDelete
    \/ KeyLeft
    \/ KeyRight
    \/ InsertManualFiducialOf({"P", "R"})

SpecMarkers == InitMarkers /\ [][NextMarkers]_vars

Kinds == {"P", "Q", "R", "S", "T"}

\* the value sampled for a marker at time t: v_clean[clamp(round(t * fs), 0, N - 1)]
NearestCleanValue(t) == VClean(Clamp(RoundDiv(t, TicksPerSample), 0, viewer.N - 1))

\* C12: a manual insert of kind K adds exactly one entry to K's times and
\* values, at time clamp(midpoint of [x0, x1], 0, total_time) with the value of
\* the nearest sample of v_clean; the other kinds and the notes are unchanged
\* and the new entry has a descriptor in the visible fiducial list.
C12_InsertAddsOneAtCentre ==
    [][trace'.op = "insert" =>
        LET K == trace'.kind
            t == Clamp((viewer.currentX0 + viewer.currentX1) \div 2, 0, viewer.total_time_)
        IN  /\ \E i \in 0..Len(viewer.times[K]) :
                  /\ viewer'.times[K] = InsertAt(viewer.times[K], i, t)
                  /\ viewer'.vals[K] = InsertAt(viewer.vals[K], i, NearestCleanValue(t))
                  /\ \E k \in 1..Len(viewer'.fiducialsCurrent_) :
                        /\ viewer'.fiducialsCurrent_[k].type = K
                        /\ viewer'.fiducialsCurrent_[k].index = i
                        /\ viewer'.fiducialsCurrent_[k].lineX = t
            /\ \A J \in Kinds \ {K} :
                  viewer'.times[J] = viewer.times[J] /\ viewer'.vals[J] = viewer.vals[J]
            /\ viewer'.notes_ = viewer.notes_
    ]_vars

\* C12 witness: window [0, 0.5 s], a P marker inserted at 0.25 s with value
\* v_clean[3] = 3 while R markers are stored
C12_Witness ==
    /\ trace.op = "insert"
    /\ trace.kind = "P"
    /\ viewer.currentX0 = 0
    /\ viewer.currentX1 = 5 * TicksPerSample
    /\ viewer.times["P"] = <<(5 * TicksPerSample) \div 2>>
    /\ viewer.vals["P"] = <<3>>
    /\ viewer.times["R"] # <<>>

\* C13: Delete/Backspace while a fiducial is hovered and no note is hovered
\* removes exactly the hovered (kind, index) entry from that kind's times and
\* values, keeps the order of the kind's other entries, leaves the other kinds
\* and the notes unchanged, and every descriptor of the visible fiducial list
\* then stands for a stored entry.  The hovered fiducial is the one the last
\* move event found under the pointer.
C13_DeleteRemovesHovered ==
    [][(/\ trace'.op = "delete"
        /\ viewer.hoverNoteIndex_ < 0
        /\ viewer.hoverFiducialIndex_ >= 0
        /\ mouse.target # NoItem) =>
        LET K == mouse.target[1]
            i == mouse.target[2]
        IN  /\ viewer'.times[K] = RemoveAt(viewer.times[K], i)
            /\ viewer'.vals[K] = RemoveAt(viewer.vals[K], i)
            /\ \A J \in Kinds \ {K} :
                  viewer'.times[J] = viewer.times[J] /\ viewer'.vals[J] = viewer.vals[J]
            /\ viewer'.notes_ = viewer.notes_
            /\ \A k \in 1..Len(viewer'.fiducialsCurrent_) :
                  LET f == viewer'.fiducialsCurrent_[k]
                  IN  f.index < Len(viewer'.times[f.type])
                        /\ f.lineX = viewer'.times[f.type][f.index + 1]
    ]_vars

----------------------------------------------------------------------------
(* Loading and saving notes *)

\* C14: a load that is cancelled in the file chooser, declined at the prefix
\* confirmation, or whose file cannot be opened, does not parse, or holds no
\* array, leaves the note store, the fiducial stores and the viewport (all of
\* the viewer, the axis range and the slider) as they were.
C14_FailedLoadChangesNothing ==
    [][(trace'.op = "load" /\ trace'.kind # "loaded") =>
          (viewer' = viewer /\ plot' = plot /\ slider' = slider /\ modal' = modal)]_vars

\* C14 witness: a declined load with a note in the store
C14_Witness ==
    /\ trace.op = "load"
    /\ trace.kind = "declined"
    /\ Len(viewer.notes_) > 0

\* the note the clamp rule gives for a JSON object: duration 0 when missing or
\* negative, time clamped to [0, total_time], duration cut to total_time - time
\* when the note would pass the end of the record
ExpectedLoaded(o) ==
    LET t == Clamp(Member(o, "time", 0), 0, viewer.total_time_)
        d == Max(Member(o, "duration", 0), 0)
    IN  [time |-> t,
         duration |-> IF t + d > viewer.total_time_ THEN viewer.total_time_ - t ELSE d,
         volts |-> Member(o, "volts", 0),
         tag |-> Member(o, "tag", 0)]

\* C15: after a successful load the note store holds one note per object of
\* the array, in array order, each clamped: duration 0 when missing or negative
\* and cut to total_time - time when time + duration > total_time, time clamped
\* to [0, total_time].
C15_LoadClampsEntries ==
    (trace.op = "load" /\ trace.kind = "loaded") =>
        LET objects == SelectSeq(trace.arr, IsObject)
        IN  viewer.notes_ = [k \in 1..Len(objects) |-> ExpectedLoaded(objects[k])]

\* C16: the array written by a save, loaded back, gives the note store that was
\* saved: as many notes, in the same order, with equal tag, time, duration and volts.
C16_SaveLoadRoundTrip ==
    (trace.op = "save" /\ trace.kind = "saved") =>
        LoadedNotes(trace.arr, viewer.total_time_) = viewer.notes_

----------------------------------------------------------------------------
(* The interaction machine *)

\* the short record shown in full, with one R marker; notes are drawn by Shift-drag
InitGestures == Assign(Construct(NShort, 0, [EmptyStore EXCEPT !["R"] = <<TRel(1)>>]))

SpecGestures == InitGestures /\ [][NextMouse]_vars

\* no gesture in progress
GestureIdle ==
    /\ ~viewer.draggingFiducial_
    /\ ~viewer.draggingNote_
    /\ ~viewer.creatingRegion_
    /\ viewer.noteDragMode_ = "None"
    /\ viewer.activeFiducialIndex_ = -1
    /\ viewer.activeNoteVisualIndex_ = -1

\* a release handler is suspended in the editor it opened
ReleasePending ==
    \E k \in 1..Len(modal) : modal[k].dlg = "editor" /\ modal[k].cont = "release"

C18_ModalMeansIdle ==
    modal # <<>> =>
        /\ GestureIdle
        /\ viewer.creatingNoteIndex_ = -1
        /\ plot.iRangeDrag = ~viewer.zoomRectMode_

----------------------------------------------------------------------------
(* Construction: show_ecg_viewer and the ECGViewer constructor *)

\* longest sample array offered to show_ecg_viewer
MaxArray == 3

\* sample rates offered to show_ecg_viewer
Rates == {-1, 0, Fs}

\* no ECGViewer object exists
NoViewer == [opened |-> FALSE]

ViewerOpen == viewer.opened

\* the constructor's member initialisation and validation, and the fields it
\* derives from the arrays and fs: a thrown std::runtime_error leaves no object
ECGViewer_ctor(nt, nOrig, nClean, nMask, fs, window_s) ==
    IF nt # nOrig \/ nt # nClean \/ nt # nMask \/ nt = 0
    THEN NoViewer
    ELSE LET span == TRel(nt - 1)
             total_time == IF span <= 0 THEN TicksPerSecond \div Max(fs, 1) ELSE span
             window == IF window_s <= 0 \/ window_s > total_time THEN total_time ELSE window_s
             ws0 == TruncDiv(window * fs, TicksPerSecond)
             window_samples == IF ws0 <= 0 THEN Min(nt, 1) ELSE ws0
         IN  [opened |-> TRUE,
              N |-> nt,
              fs_ |-> fs,
              total_time_ |-> total_time,
              window_s_ |-> window,
              window_s_original_ |-> window,
              min_window_s_ |-> Max(TicksPerSecond \div 20, (5 * TicksPerSecond) \div Max(fs, 1)),
              window_samples_ |-> window_samples,
              max_start_sample_ |-> Max(0, nt - window_samples - 1)]

\* show_ecg_viewer: its own length check throws before the constructor runs
show_ecg_viewer(nt, nOrig, nClean, nMask, fs, window_s) ==
    IF nt # nOrig \/ nt # nClean \/ nt # nMask
    THEN NoViewer
    ELSE ECGViewer_ctor(nt, nOrig, nClean, nMask, fs, window_s)

InitLaunch ==
    /\ viewer = NoViewer
    /\ plot = [lower |-> 0, upper |-> 0, iRangeDrag |-> TRUE]
    /\ slider = [value |-> 0, maximum |-> 0]
    /\ modal = <<>>
    /\ mouse = NoGesture
    /\ trace = NoTrace
    /\ disk = NoFiles

\* Python calls show_ecg_viewer with four arrays of the given lengths
ShowViewer ==
    \E nt \in 0..MaxArray, nOrig \in 0..MaxArray, nClean \in 0..MaxArray,
       nMask \in 0..MaxArray, fs \in Rates, window_s \in {0, 2 * TicksPerSample} :
        /\ ~ViewerOpen
        /\ viewer' = show_ecg_viewer(nt, nOrig, nClean, nMask, fs, window_s)
        /\ trace' = [NoTrace EXCEPT !.op = "show", !.a = fs, !.b = window_s,
                                    !.arr = <<nt, nOrig, nClean, nMask>>,
                                    !.kind = IF viewer'.opened THEN "opened"
                                                               ELSE "runtime_error"]
        /\ UNCHANGED <<plot, slider, modal, mouse, disk>>

\* the window is closed (Qt::WA_DeleteOnClose deletes the object)
CloseViewer ==
    /\ ViewerOpen
    /\ viewer' = NoViewer
    /\ trace' = [NoTrace EXCEPT !.op = "close"]
    /\ UNCHANGED <<plot, slider, modal, mouse, disk>>

NextLaunch ==
    \/ ShowViewer
    \/ CloseViewer

SpecLaunch == InitLaunch /\ [][NextLaunch]_vars

\* C19: a call of show_ecg_viewer opens a viewer exactly when the four arrays
\* have one common non-zero length and the sample rate is positive; otherwise
\* it fails with an error and no viewer exists.
C19_ConstructionValidates ==
    trace.op = "show" =>
        LET equal == /\ trace.arr[1] = trace.arr[2]
                     /\ trace.arr[1] = trace.arr[3]
                     /\ trace.arr[1] = trace.arr[4]
            valid == equal /\ trace.arr[1] > 0 /\ trace.a > 0
        IN  /\ ViewerOpen <=> valid
            /\ ~ViewerOpen <=> trace.kind = "runtime_error"

\* C20: when an external change of the x-range proposing [a, b] has been handled,
\* the range the handler wrote back lies inside [0, total_time], is as wide as
\* the proposal when that is no wider than total_time, and the start sample the
\* handler chose is clamp(round(x0 * fs), 0, max_start_sample) for the lower
\* bound x0 it wrote back.
C20_RangeWriteBack ==
    (trace.op = "range" /\ trace.written # <<>>) =>
        LET x0 == trace.written[1]
            x1 == trace.written[2]
            width == trace.b - trace.a
        IN  /\ 0 <= x0
            /\ x1 <= viewer.total_time_
            /\ (width <= viewer.total_time_) => (x1 - x0 = width)
            /\ trace.written[3] = Clamp(RoundDiv(x0, TicksPerSample), 0, viewer.max_start_sample_)

----------------------------------------------------------------------------
(* Window length *)

C22_WindowSamplesRounded ==
    trace.op \in {"construct", "zoomIn", "zoomOut", "reset"} =>
        /\ viewer.window_samples_ = Max(1, RoundDiv(viewer.window_s_, TicksPerSample))
        /\ viewer.max_start_sample_ = Max(0, viewer.N - viewer.window_samples_ - 1)
        /\ (trace.op = "construct" /\ viewer.N = 10 /\ viewer.window_s_ = TicksPerSecond \div 2) =>
              /\ viewer.window_samples_ = 5
              /\ viewer.max_start_sample_ = 4
              /\ plot.lower = 0
              /\ plot.upper = TicksPerSecond \div 2

----------------------------------------------------------------------------
(* Note drags *)

\* a Move drag of a point note is in progress: the note the active descriptor stands for
PointNoteDragged(v) ==
    /\ v.draggingNote_
    /\ v.noteDragMode_ = "Move"
    /\ ~v.creatingRegion_
    /\ v.activeNoteVisualIndex_ \in 0..(Len(v.notesCurrent_) - 1)
    /\ At(v.notesCurrent_, v.activeNoteVisualIndex_).noteIndex \in 0..(Len(v.notes_) - 1)
    /\ At(v.notes_, At(v.notesCurrent_, v.activeNoteVisualIndex_).noteIndex).duration = 0

DraggedNote(v) == At(v.notes_, At(v.notesCurrent_, v.activeNoteVisualIndex_).noteIndex)

\* the press that starts the drag of a point note records
\* offset = note.time - clickTime, and every move event of the drag sets
\* note.time = clamp(mouseT + offset, 0, total_time), mouseT being the pointer's
\* time bounded to [0, total_time]
PointNoteMoveRule ==
    /\ (trace'.op = "press" /\ PointNoteDragged(viewer')) =>
          viewer'.noteDragOffsetSeconds_ = DraggedNote(viewer').time - trace'.a
    /\ (trace'.op = "move" /\ PointNoteDragged(viewer)) =>
          /\ PointNoteDragged(viewer')
          /\ DraggedNote(viewer').time =
                Clamp(Clamp(trace'.a, 0, viewer.total_time_) + viewer.noteDragOffsetSeconds_,
                      0, viewer.total_time_)

\* a move event of the drag of a point note that is at time 0
MoveOfNoteAtZero ==
    /\ trace'.op = "move"
    /\ PointNoteDragged(viewer)
    /\ DraggedNote(viewer).time = 0

----------------------------------------------------------------------------
(* Reset View after zooms, pans and range changes *)

\* y-ranges a zoom rectangle can select, in units of 0.05 V
YRanges == {<<-1, 1>>, <<0, 3>>, <<0, 1>>}

\* a rectangle drawn in zoom-rect mode (QCP::srmZoom): both axes take the
\* rectangle's ranges, the x-range through the range-changed handler
RectZoom ==
    \E lo \in RangeLowers, y \in YRanges :
        /\ Idle
        /\ ~mouse.down
        /\ viewer.zoomRectMode_
        /\ plot.yLower <= y[1]
        /\ y[2] <= plot.yUpper
        /\ y # <<plot.yLower, plot.yUpper>>
        /\ Commit(QCPAxis_setRange(
                      [BeginEvent(World, "rectZoom", lo, lo + 3 * TicksPerSample)
                          EXCEPT !.plot.yLower = y[1], !.plot.yUpper = y[2]],
                      lo, lo + 3 * TicksPerSample))

NextReset ==
    \/ SliderMove
    \/ KeyLeft
    \/ KeyRight
    \/ ZoomIn
    \/ ZoomOut
    \/ ResetView
    \/ ExternalRangeChange
    \/ ZoomRectToggle
    \/ RectZoom

SpecReset == InitViewport /\ [][NextReset]_vars

\* C24: after any sequence of zooms, pans and range changes, Reset View leaves
\* window_seconds at the window length in effect right after construction and
\* the y-axis at its range at construction.
C24_ResetRestoresView ==
    trace.op = "reset" =>
        /\ viewer.window_s_ = viewer.window_s_original_
        /\ plot.yLower = viewer.y_min_orig_
        /\ plot.yUpper = viewer.y_max_orig_
        /\ <<viewer.y_min_orig_, viewer.y_max_orig_>> = YDefault

----------------------------------------------------------------------------
(* Hover and Delete with notes and a fiducial on the plot *)

\* the record of seven samples, the window five samples long, one R marker;
\* notes come from the notes manager's Load
InitHover == Assign(Construct(NMid, 5 * TicksPerSample, [EmptyStore EXCEPT !["R"] = <<TRel(3)>>]))

NextHover ==
    \/ MouseMove
    \/ KeyDelete
    \/ KeyLeft
    \/ KeyRight
    \/ ShowNotesDialog
    \/ NotesDialogLoad
    \/ NotesDialogClose

SpecHover == InitHover /\ [][NextHover]_vars

\* the number of entries of the fiducial and note stores of v
StoreEntries(v) ==
    Len(v.notes_) + Len(v.times["P"]) + Len(v.times["Q"]) + Len(v.times["R"])
        + Len(v.times["S"]) + Len(v.times["T"])

\* C25: after every idle move at most one of the note hover and the fiducial
\* hover is set, and a hit on a note item sets no fiducial hover; a Delete or
\* Backspace press removes at most one store entry: while a note is hovered it
\* removes the hovered note (the one the last move found under the pointer) and
\* no fiducial, and it removes a fiducial only while no note is hovered.
C25_NoteBeforeFiducial ==
    [][/\ ~(viewer'.hoverNoteIndex_ >= 0 /\ viewer'.hoverFiducialIndex_ >= 0)
       /\ (trace'.op = "move" /\ HoverTested(viewer) /\ mouse'.target[1] = "note") =>
              (viewer'.hoverNoteIndex_ >= 0 /\ viewer'.hoverFiducialIndex_ = -1)
       /\ trace'.op = "delete" =>
              /\ StoreEntries(viewer') >= StoreEntries(viewer) - 1
              /\ viewer.hoverNoteIndex_ >= 0 =>
                    /\ viewer'.times = viewer.times
                    /\ viewer'.vals = viewer.vals
                    /\ mouse.target[1] = "note" =>
                          viewer'.notes_ = RemoveAt(viewer.notes_, mouse.target[2])
              /\ viewer.hoverNoteIndex_ < 0 => viewer'.notes_ = viewer.notes_
      ]_vars

----------------------------------------------------------------------------
(* The note editor *)

\* OK in the editor with any of its fields edited; the trace keeps the fields
EditorAcceptFields ==
    \E tag \in {1, 9}, time \in {0, TicksPerSample, viewer.total_time_},
       duration \in EditorDurations, volts \in {0, 5} :
        /\ TopDialog = "editor"
        /\ Commit(editorAcceptedFields(
                      [BeginEvent(World, "editorOk", modal[Len(modal)].noteIndex, 0) EXCEPT
                          !.trace.arr = <<[tag |-> tag, time |-> time,
                                           duration |-> duration, volts |-> volts]>>],
                      tag, time, duration, volts))

\* the notes file holding a point note and a region
TwoNotes ==
    GoodFile(<<[time |-> TicksPerSample, duration |-> 0, volts |-> 0, tag |-> 1],
               [time |-> 2 * TicksPerSample, duration |-> 2 * TicksPerSample, volts |-> 0, tag |-> 2]>>)

NotesDialogLoadTwo ==
    /\ TopDialog = "notes"
    /\ viewer.notes_ = <<>>
    /\ Commit(onLoadNotesFile([BeginEvent(World, "load", 0, 0) EXCEPT
                                  !.trace.kind = "loaded", !.trace.arr = TwoNotes.arr],
                              TwoNotes))

NextEditor ==
    \/ MouseDoubleClick
    \/ ShowNotesDialog
    \/ NotesDialogClose
    \/ NotesDialogLoadTwo
    \/ NotesDialogEdit
    \/ NotesDialogDoubleClicked
    \/ EditorAcceptFields
    \/ EditorReject

SpecEditor == InitNotes /\ [][NextEditor]_vars

\* the notes of seq other than the one at index i (from 0) are those of old
OthersUnchanged(seq, old, i) ==
    /\ Len(seq) = Len(old)
    /\ \A k \in 1..Len(seq) : k # i + 1 => seq[k] = old[k]

\* C26: Cancel in the note editor leaves the number of notes and every field of
\* every note as they were when the editor opened; OK writes the tag, time,
\* duration and voltage fields to the edited note and to no other, and leaves
\* the edited note with 0 <= time <= total_time, duration >= 0 and
\* time + duration <= total_time.
C26_EditorWritesOneNote ==
    [][/\ trace'.op = "editorCancel" => viewer'.notes_ = viewer.notes_
       /\ (trace'.op = "editorOk" /\ trace'.arr # <<>>) =>
              LET i == trace'.a
                  given == trace'.arr[1]
                  n == At(viewer'.notes_, i)
              IN  /\ i = modal[Len(modal)].noteIndex
                  /\ OthersUnchanged(viewer'.notes_, viewer.notes_, i)
                  /\ n.tag = given.tag
                  /\ n.volts = given.volts
                  /\ n.time = given.time
                  /\ n.duration = Min(given.duration, viewer.total_time_ - given.time)
                  /\ 0 <= n.time /\ n.time <= viewer.total_time_
                  /\ n.duration >= 0
                  /\ n.time + n.duration <= viewer.total_time_
      ]_vars

\* C26 witness: OK on the first of two notes with every field edited and a
\* duration cut at the end of the record; the second note is as loaded
C26_Witness ==
    /\ trace.op = "editorOk"
    /\ trace.a = 0
    /\ Len(viewer.notes_) = 2
    /\ viewer.notes_[1] = [tag |-> 9, volts |-> 5, time |-> TicksPerSample,
                           duration |-> viewer.total_time_ - TicksPerSample]
    /\ viewer.notes_[2] = LoadedNotes(TwoNotes.arr, viewer.total_time_)[2]

----------------------------------------------------------------------------
(* Overlay items alive on the plot *)

\* the items the fiducial and the note descriptors refer to
ReferencedItems == ItemsOf(viewer.fiducialItems_) \cup ItemsOf(viewer.noteItems_)

\* C27: in every reachable state the overlay items alive on the plot are exactly the
\* items the current fiducial and note descriptors refer to: no item is leaked, no
\* descriptor refers to a removed item, each descriptor has its two items and no item
\* is referred to twice
C27_ItemsAliveAreReferenced ==
    /\ plot.items = ReferencedItems
    /\ Len(viewer.fiducialItems_) = 2 * Len(viewer.fiducialsCurrent_)
    /\ Len(viewer.noteItems_) = 2 * Len(viewer.notesCurrent_)
    /\ Cardinality(ReferencedItems) = Len(viewer.fiducialItems_) + Len(viewer.noteItems_)

\* the rebuild after a deletion has removed the two items of the fiducial line while
\* the items of a note, created after them, stay alive
C27_Witness ==
    /\ trace.op = "delete"
    /\ Len(viewer.fiducialsCurrent_) = 0
    /\ Len(viewer.notesCurrent_) = 1
    /\ plot.items = {3, 4}

----------------------------------------------------------------------------
(* Recentring on a note from the notes manager *)

\* C28: a double click on a note in the list of the notes manager leaves
\* window_seconds unchanged, shows a range that holds the note's time, and leaves
\* the slider on the start sample of the range shown
C28_RecentreShowsNote ==
    [][trace'.op = "mgrDoubleClick" =>
          /\ viewer'.window_s_ = viewer.window_s_
          /\ At(viewer.notes_, trace'.a).time >= plot'.lower
          /\ At(viewer.notes_, trace'.a).time <= plot'.upper
          /\ TRel(slider'.value) = plot'.lower]_vars

----------------------------------------------------------------------------
(* The guard around the programmatic writes of the x-range *)

\* C29: every write of the x-range made by the viewer's code (in updateWindow, in the
\* range-changed handler, in the recentring on a note) is made with
\* suppressRangeHandler_ raised, so the body of the range-changed handler runs only
\* for a change of range that came from the toolkit
C29_WritesAreGuarded ==
    /\ trace.unguardedWrites = 0
    /\ trace.op # "range" => trace.bodyActiveMax = 0

----------------------------------------------------------------------------
(* Keys pressed during a drag *)

InitDrag ==
    Assign(Construct(NMid, 5 * TicksPerSample,
                     [EmptyStore EXCEPT !["R"] = <<0, TRel(3)>>]))

NextDrag ==
    \/ MousePressPlain
    \/ MouseMove
    \/ MouseRelease
    \/ KeyDelete
    \/ KeyLeft
    \/ KeyRight

SpecDrag == InitDrag /\ [][NextDrag]_vars

\* a drag of a fiducial or of a note is in progress
ItemDragged == mouse.down /\ mouse.picked # NoItem

\* the active index designates the visible descriptor of the entry picked
ActiveDesignatesPicked ==
    IF mouse.picked[1] = "note"
    THEN /\ viewer.activeNoteVisualIndex_ \in 0..(Len(viewer.notesCurrent_) - 1)
         /\ At(viewer.notesCurrent_, viewer.activeNoteVisualIndex_).noteIndex = mouse.picked[2]
    ELSE /\ viewer.activeFiducialIndex_ \in 0..(Len(viewer.fiducialsCurrent_) - 1)
         /\ At(viewer.fiducialsCurrent_, viewer.activeFiducialIndex_).type = mouse.picked[1]
         /\ At(viewer.fiducialsCurrent_, viewer.activeFiducialIndex_).index = mouse.picked[2]

\* the step changes no fiducial and no note but the entry picked
OnlyPickedWritten ==
    /\ Len(viewer'.notes_) = Len(viewer.notes_)
    /\ \A i \in 1..Len(viewer.notes_) :
           <<"note", i - 1>> # mouse.picked => viewer'.notes_[i] = viewer.notes_[i]
    /\ \A type \in DOMAIN viewer.times :
           /\ Len(viewer'.times[type]) = Len(viewer.times[type])
           /\ \A i \in 1..Len(viewer.times[type]) :
                  <<type, i - 1>> # mouse.picked =>
                      /\ viewer'.times[type][i] = viewer.times[type][i]
                      /\ viewer'.vals[type][i] = viewer.vals[type][i]

\* C30: when Left/Right/A/D or Delete/Backspace come between the press and the
\* release of a drag of a fiducial or of a note, each move and the release still find
\* the active index designating the visible descriptor of the entry picked at the
\* press, index the visible list inside its bounds and write to no other entry
C30_KeysDuringDrag ==
    [][(ItemDragged /\ trace'.op \in {"move", "release"}) =>
          /\ ActiveDesignatesPicked
          /\ viewer'.undefined => viewer.undefined
          /\ OnlyPickedWritten]_vars

----------------------------------------------------------------------------
(* Delete after a rebuild of the visible lists *)

\* the event before this one rebuilt the visible lists: a Delete, or a key pan
\* that moved the window
RebuiltByLastEvent ==
    \/ trace.op = "delete"
    \/ trace.op \in {"left", "right"} /\ trace.axisWrites > 0

\* C31: a Delete or Backspace press removes only the item the most recent idle move
\* found under the pointer: pressed after an event that rebuilt the visible lists,
\* with no move in between, it removes nothing; two Delete presses in a row remove
\* at most one note
C31_DeleteNeedsFreshHover ==
    [][(trace'.op = "delete" /\ RebuiltByLastEvent) =>
          /\ viewer'.notes_ = viewer.notes_
          /\ viewer'.times = viewer.times]_vars

----------------------------------------------------------------------------
(* Drags of a region note: resize and move *)

\* left button pressed with Shift held
MousePressShift == MousePressWith({TRUE})

NextRegions ==
    \/ MousePressShift
    \/ MouseMove
    \/ MouseRelease
    \/ EditorReject
    \/ ShowNotesDialog
    \/ NotesDialogLoadTwo
    \/ NotesDialogClose

\* an R fiducial at the end of the record, outside the window shown
InitRegions ==
    Assign(Construct(NMid, 5 * TicksPerSample, [EmptyStore EXCEPT !["R"] = <<TRel(NMid - 1)>>]))

SpecRegions == InitRegions /\ [][NextRegions]_vars

\* a move of the drag in progress on the note picked at the press reaches moveNote
NoteMoveActs(mode) ==
    /\ trace'.op = "move"
    /\ viewer.draggingNote_
    /\ viewer.noteDragMode_ = mode
    /\ mouse.picked[1] = "note"
    /\ viewer.activeNoteVisualIndex_ \in 0..(Len(viewer.notesCurrent_) - 1)

\* the step changes no note but the one picked, and no fiducial
OnlyPickedNoteChanged ==
    /\ Len(viewer'.notes_) = Len(viewer.notes_)
    /\ \A i \in 1..Len(viewer.notes_) :
           i - 1 # mouse.picked[2] => viewer'.notes_[i] = viewer.notes_[i]
    /\ viewer'.times = viewer.times
    /\ viewer'.vals = viewer.vals

\* C32: every move of a resize-left drag keeps the region's end at original_end and
\* its duration at 1/fs or more; every move of a resize-right drag keeps the region's
\* time at original_start and its duration at 1/fs or more; in both modes no other
\* note and no fiducial is changed
C32_ResizeKeepsOtherEdge ==
    [][/\ NoteMoveActs("ResizeLeft") =>
              LET n == At(viewer'.notes_, mouse.picked[2])
              IN  /\ n.time + n.duration = viewer.originalEnd_
                  /\ n.duration >= SamplePeriod
                  /\ OnlyPickedNoteChanged
       /\ NoteMoveActs("ResizeRight") =>
              LET n == At(viewer'.notes_, mouse.picked[2])
              IN  /\ n.time = viewer.originalStart_
                  /\ n.duration >= SamplePeriod
                  /\ OnlyPickedNoteChanged]_vars

\* a resize-left move has pulled the start of the loaded region to the left, beside
\* the point note and the fiducial
C32_Witness ==
    /\ trace.op = "move"
    /\ viewer.noteDragMode_ = "ResizeLeft"
    /\ Len(viewer.notes_) = 2
    /\ viewer.notes_[2].time < 2 * TicksPerSample
    /\ viewer.notes_[2].time + viewer.notes_[2].duration = 4 * TicksPerSample
    /\ viewer.times["R"] = <<TRel(NMid - 1)>>

\* C33: a move of a region note in move mode leaves its duration as it was, and the
\* note then lies inside the record, 0 <= time and time + duration <= total_time,
\* whenever its duration is at most total_time
C33_RegionMoveStaysInside ==
    [][(/\ NoteMoveActs("Move")
        /\ At(viewer.notes_, mouse.picked[2]).duration > 0
        /\ At(viewer.notes_, mouse.picked[2]).duration <= viewer.total_time_) =>
          LET n == At(viewer'.notes_, mouse.picked[2])
          IN  /\ n.duration = At(viewer.notes_, mouse.picked[2]).duration
              /\ n.time >= 0
              /\ n.time + n.duration <= viewer.total_time_]_vars

\* a region pushed against the end of the record: the pointer asked for more
C33_Witness ==
    /\ trace.op = "move"
    /\ viewer.draggingNote_
    /\ viewer.noteDragMode_ = "Move"
    /\ Len(viewer.notes_) = 2
    /\ viewer.notes_[2].duration = 2 * TicksPerSample
    /\ viewer.notes_[2].time + viewer.notes_[2].duration = viewer.total_time_
    /\ trace.a + viewer.noteDragOffsetSeconds_ > viewer.notes_[2].time

----------------------------------------------------------------------------
(* Shift press on a note *)

\* C34: outside zoom-rect mode a Shift press on an item of a visible region enters
\* resize-left when the pointer is within 7 px of the left edge, else resize-right
\* when it is within 7 px of the right edge, else move, and records originalStart_ =
\* time and originalEnd_ = time + duration; on a point note it opens the note editor
\* and sets no drag flag and no drag mode
C34_ShiftPressOnNote ==
    [][(trace'.op = "press" /\ trace'.kind # "none" /\ ~viewer.zoomRectMode_) =>
          LET noteIndex == At(viewer.notesCurrent_, trace'.b).noteIndex
              n == At(viewer.notes_, noteIndex)
          IN  IF n.duration > 0
              THEN /\ viewer'.draggingNote_
                   /\ viewer'.noteDragMode_ =
                          (IF trace'.kind \in {"left", "both"} THEN "ResizeLeft"
                           ELSE IF trace'.kind = "right" THEN "ResizeRight" ELSE "Move")
                   /\ viewer'.originalStart_ = n.time
                   /\ viewer'.originalEnd_ = n.time + n.duration
                   /\ At(viewer'.notesCurrent_, viewer'.activeNoteVisualIndex_).noteIndex = noteIndex
              ELSE /\ modal' = Append(modal, [dlg |-> "editor", noteIndex |-> noteIndex, cont |-> "none"])
                   /\ ~viewer'.draggingNote_
                   /\ ~viewer'.draggingFiducial_
                   /\ ~viewer'.creatingRegion_
                   /\ viewer'.noteDragMode_ = "None"
                   /\ viewer'.notes_ = viewer.notes_]_vars

\* a Shift press within 7 px of both edges of a region one sample long
C34_Witness ==
    /\ trace.op = "press"
    /\ trace.kind = "both"
    /\ viewer.noteDragMode_ = "ResizeLeft"
    /\ viewer.originalEnd_ - viewer.originalStart_ = SamplePeriod

----------------------------------------------------------------------------
(* Frame of a fiducial drag *)

\* a move or the release of a drag in progress on the fiducial picked at the press,
\* which the active index designates
FiducialDragActs ==
    /\ trace'.op \in {"move", "release"}
    /\ viewer.draggingFiducial_
    /\ ItemDragged
    /\ mouse.picked[1] \in DOMAIN viewer.times
    /\ ActiveDesignatesPicked

----------------------------------------------------------------------------
(* What an overlay rebuild lists *)

\* the long record with one P and one R marker, panned by keys, with a marker inserted
\* and a notes file (a point note and a region) loaded
InitOverlay ==
    Assign(Construct(NSamples, 5 * TicksPerSample,
                     [EmptyStore EXCEPT !["P"] = <<0>>, !["R"] = <<TRel(4)>>]))

NextOverlay ==
    \/ KeyLeft
    \/ KeyRight
    \/ InsertManualFiducialOf({"P", "R"})
    \/ ShowNotesDialog
    \/ NotesDialogLoadTwo
    \/ NotesDialogClose

SpecOverlay == InitOverlay /\ [][NextOverlay]_vars

KindRank(type) == CHOOSE r \in 1..Len(FiducialTypes) : FiducialTypes[r] = type

\* the (kind, store index) pairs of the fiducials whose time lies in [x0, x1]
FiducialsInRange(x0, x1) ==
    {e \in (DOMAIN viewer.times) \X (0..(MaxFiducials - 1)) :
        /\ e[2] < Len(viewer.times[e[1]])
        /\ x0 <= viewer.times[e[1]][e[2] + 1]
        /\ viewer.times[e[1]][e[2] + 1] <= x1}

\* the store indices of the point notes in [x0, x1] and of the regions that overlap it
NotesInRange(x0, x1) ==
    {i \in 0..(Len(viewer.notes_) - 1) :
        LET n == viewer.notes_[i + 1]
        IN  IF n.duration = 0
            THEN x0 <= n.time /\ n.time <= x1
            ELSE n.time <= x1 /\ n.time + n.duration >= x0}

\* C36: the lists a rebuild for [x0, x1] leaves hold one fiducial descriptor for
\* exactly each (kind, index) with its time in the range, kinds in the order P, Q, R,
\* S, T and then by index, and one note descriptor in store order for exactly each
\* point note in the range and each region overlapping it; a note descriptor has a
\* line and no rectangle for duration 0, a rectangle and no line for duration > 0
C36_RebuildListsVisibleEntries ==
    LET x0 == viewer.currentX0
        x1 == viewer.currentX1
        fs == FiducialEntries(viewer.fiducialsCurrent_)
        ns == viewer.notesCurrent_
    IN  /\ {fs[k] : k \in 1..Len(fs)} = FiducialsInRange(x0, x1)
        /\ \A j, k \in 1..Len(fs) :
              j < k => \/ KindRank(fs[j][1]) < KindRank(fs[k][1])
                       \/ fs[j][1] = fs[k][1] /\ fs[j][2] < fs[k][2]
        /\ {ns[k].noteIndex : k \in 1..Len(ns)} = NotesInRange(x0, x1)
        /\ \A j, k \in 1..Len(ns) : j < k => ns[j].noteIndex < ns[k].noteIndex
        /\ \A k \in 1..Len(ns) :
              LET n == viewer.notes_[ns[k].noteIndex + 1]
              IN  /\ ns[k].line <=> n.duration = 0
                  /\ ns[k].rect <=> n.duration > 0
                  /\ ns[k].line # ns[k].rect

\* after a pan the window starts inside the loaded region and past the point note and
\* the first markers: the region is listed, the point note is not, and a P marker
\* inserted since then is listed before the R marker
C36_Witness ==
    /\ viewer.currentX0 = TRel(3)
    /\ Len(viewer.notes_) = 2
    /\ Len(viewer.notesCurrent_) = 1
    /\ viewer.notesCurrent_[1].noteIndex = 1
    /\ viewer.notesCurrent_[1].rect
    /\ Len(viewer.times["P"]) = 2
    /\ FiducialEntries(viewer.fiducialsCurrent_) = <<<<"P", 1>>, <<"R", 0>>>>

----------------------------------------------------------------------------
(* The series a refresh hands to the plot *)

\* the long record opened with the original trace shown or hidden, under slider, key,
\* zoom, reset and range events
InitSeries ==
    \E window_s \in WindowRequests, hide_artifacts \in BOOLEAN :
        Assign(ConstructShowing(NSamples, window_s, EmptyStore, hide_artifacts))

SpecSeries == InitSeries /\ [][NextReset]_vars

\* the sample indices s + k * step inside [s, min(s + window_samples, N))
ConsideredSamples(s) ==
    LET stop == Min(s + viewer.window_samples_, viewer.N)
        raw_count == stop - s
        step == Max(1, raw_count \div maxPoints)
    IN  {i \in s..(stop - 1) : (i - s) % step = 0}

SeriesSet(series) == {series[k] : k \in 1..Len(series)}

\* the last event refreshed the window, from start sample trace.refresh
Refreshed == trace.refresh >= 0

\* the base series holds the considered samples with mask 0, in order, and the original
\* series holds every considered sample and is shown iff hide_artifacts is false
C37_BaseAndOriginalSeries ==
    Refreshed =>
        /\ SeriesSet(plot.graphCleanBase)
              = {i \in ConsideredSamples(trace.refresh) : artMask(i) = 0}
        /\ \A j, k \in 1..Len(plot.graphCleanBase) :
              j < k => plot.graphCleanBase[j] < plot.graphCleanBase[k]
        /\ plot.graphOrigFullVisible = ~viewer.hide_artifacts_
        /\ ~viewer.hide_artifacts_ =>
              SeriesSet(plot.graphOrigFull) = ConsideredSamples(trace.refresh)

\* the cleaned-trace samples on the plot: graphCleanBase_ is its only graph of them
CleanedOnPlot == SeriesSet(plot.graphCleanBase)

\* C37: a refresh from start sample s considers the samples s + k * step inside
\* [s, min(s + window_samples, N)), step = max(1, raw_count div the point budget);
\* each considered sample of the cleaned trace is in the artifact series iff its mask
\* is not 0 and in the base series otherwise, both cleaned series are handed to the
\* plot, and the original series is handed to it iff hide_artifacts is false
C37_RefreshHandsAllSeries ==
    Refreshed =>
        /\ C37_BaseAndOriginalSeries
        /\ {i \in ConsideredSamples(trace.refresh) : artMask(i) # 0} \subseteq CleanedOnPlot

----------------------------------------------------------------------------
(* The default notes file after Save *)

\* notes loaded and deleted in the manager, with Save and key pans between
NextSave ==
    \/ Save
    \/ KeyLeft
    \/ KeyRight
    \/ ShowNotesDialog
    \/ NotesDialogClose
    \/ NotesDialogLoadTwo
    \/ NotesDialogDelete

SpecSave == InitNotes /\ [][NextSave]_vars

\* the last event was a Save in which every file opened for writing
SaveCompleted == trace.op = "saveAll" /\ trace.kind = "saved" /\ trace.a = 1

\* the JSON array that encodes the note store
EncodedNotes == [k \in 1..Len(viewer.notes_) |-> NoteToJson(viewer.notes_[k])]

\* after a completed Save of a store that is not empty, the default notes file exists
\* and encodes the store
C38_SaveWritesNonEmptyStore ==
    (SaveCompleted /\ viewer.notes_ # <<>>) =>
        /\ disk.json.exists
        /\ disk.json.arr = EncodedNotes

\* C38: after every completed Save the default notes file, if it exists, encodes
\* exactly the current note store, the empty store included, whatever was saved before
C38_DefaultFileIsCurrent ==
    SaveCompleted => (disk.json.exists => disk.json.arr = EncodedNotes)

----------------------------------------------------------------------------
(* The gesture flags together *)

GestureFlags ==
    {f \in {"fiducial", "note", "region"} :
        \/ f = "fiducial" /\ viewer.draggingFiducial_
        \/ f = "note" /\ viewer.draggingNote_
        \/ f = "region" /\ viewer.creatingRegion_}

\* C39: at most one of dragging-fiducial, dragging-note and creating-region is set;
\* the note drag mode differs from None only while a note drag or a region creation
\* is in progress; the active fiducial index and the active note visual index are -1
\* whenever no gesture is in progress
C39_GestureFlagsExclusive ==
    /\ Cardinality(GestureFlags) <= 1
    /\ viewer.noteDragMode_ # "None" => (viewer.draggingNote_ \/ viewer.creatingRegion_)
    /\ GestureFlags = {} =>
          /\ viewer.activeFiducialIndex_ = -1
          /\ viewer.activeNoteVisualIndex_ = -1


\* the same, outside the time the editor opened by a region-creating release is open
C39_FlagsExclusiveOutsideEditor == ~ReleasePending => C39_GestureFlagsExclusive

----------------------------------------------------------------------------
(* Times and values of each kind side by side *)

\* C40: for every kind the time sequence and the value sequence have the same length
\* in every reachable state; insert, drag move and delete keep them aligned index by
\* index: the value at an index is the cleaned trace at the time at that index
C40_TimesAndValsAligned ==
    \A type \in DOMAIN viewer.times :
        /\ Len(viewer.vals[type]) = Len(viewer.times[type])
        /\ \A i \in 1..Len(viewer.times[type]) :
              viewer.vals[type][i] = CleanValueAt(viewer.N, viewer.times[type][i])

\* a drag has carried one of two R markers past the other: both sequences of the kind
\* are two entries long and the times are no longer ascending
C40_Witness ==
    /\ trace.op = "move"
    /\ viewer.draggingFiducial_
    /\ Len(viewer.times["R"]) = 2
    /\ Len(viewer.vals["R"]) = 2
    /\ viewer.times["R"] # <<0, TicksPerSample>>
    /\ viewer.times["R"][1] > viewer.times["R"][2]

====
